---- MODULE Spec2Model ----
(***************************************************************************)
(* Unusual-options scanner: the candidate pipeline of strategy.py          *)
(* (find_unusual_activity and its helpers) and the scan loop of worker.py  *)
(* (_scan_once), as state machines over bounded inputs.                    *)
(*                                                                         *)
(* Conventions.  An Optional value is None (the empty tuple) or Some(v)    *)
(* (a one-element tuple).  A Python float is an exact rational [n, d] in   *)
(* lowest terms with d > 0 (binary rounding is not modelled); float inputs *)
(* are drawn from the integers.  A date is a day number, and today is      *)
(* day Today.                                                              *)
(***************************************************************************)
EXTENDS Integers, Sequences, FiniteSets, TLC

VARIABLES
    mode,          \* which entry point runs
    pc,            \* position of the running function
    settings,      \* the Settings object handed to the function
    chain,         \* chain.contracts seen so far (find_unusual_activity) / snapshot_resp.results (scan)
    chain_price,   \* chain.underlying_price
    thresholds,    \* the local `thresholds` of find_unusual_activity
    candidates,    \* the local list `candidates`
    reasons_log,   \* the `reasons` list of each contract evaluated, in input order
    calls,         \* which helper was invoked for which contract: <<name, index>>
    result,        \* the returned list (find_unusual_activity) / the candidates handed to the sinks (scan)
    input,         \* arguments of a direct call of a helper function
    output         \* its return value

vars == <<mode, pc, settings, chain, chain_price, thresholds, candidates,
          reasons_log, calls, result, input, output>>

-----------------------------------------------------------------------------
(* Optional values and Python truthiness *)

None == << >>
Some(v) == <<v>>
IsNone(x) == x = << >>
Val(x) == x[1]
\* `x or 0` for an Optional[int]
OrZero(x) == IF IsNone(x) THEN 0 ELSE Val(x)
\* bool(x) for an Optional number: None and 0 are falsy
Truthy(x) == ~IsNone(x) /\ Val(x) # 0

-----------------------------------------------------------------------------
(* Exact rationals for float arithmetic *)

Abs(x) == IF x < 0 THEN -x ELSE x

RECURSIVE GCD(_, _)
GCD(a, b) == IF b = 0 THEN a ELSE GCD(b, a % b)

Rat(n, d) ==
    LET s == IF d < 0 THEN -1 ELSE 1
        g == GCD(Abs(n), Abs(d))
    IN  [n |-> (s * n) \div g, d |-> (s * d) \div g]

F(i) == [n |-> i, d |-> 1]
RAdd(a, b) == Rat(a.n * b.d + b.n * a.d, a.d * b.d)
RSub(a, b) == Rat(a.n * b.d - b.n * a.d, a.d * b.d)
RMul(a, b) == Rat(a.n * b.n, a.d * b.d)
RDiv(a, b) == Rat(a.n * b.d, a.d * b.n)
RLt(a, b) == a.n * b.d < b.n * a.d
RLe(a, b) == a.n * b.d <= b.n * a.d
RGe(a, b) == RLe(b, a)
RGt(a, b) == RLt(b, a)
RMin(a, b) == IF RLe(a, b) THEN a ELSE b
RMax(a, b) == IF RGe(a, b) THEN a ELSE b
RAbs(a) == [n |-> Abs(a.n), d |-> a.d]
Min(a, b) == IF a <= b THEN a ELSE b
Max(a, b) == IF a >= b THEN a ELSE b

\* math.log10(x) for x >= 1, to a quarter from below: the integer part is the
\* number of digits of floor(x) less one, the fraction is decided on the two
\* leading digits l (10..99) by l^4 >= 10^(k+4), k = 1..3.
RECURSIVE FloorLog10(_)
FloorLog10(k) == IF k < 10 THEN 0 ELSE 1 + FloorLog10(k \div 10)

RECURSIVE Lead2(_)
Lead2(k) == IF k < 10 THEN k * 10 ELSE IF k < 100 THEN k ELSE Lead2(k \div 10)

Log10(x) ==
    LET k == x.n \div x.d
        l == Lead2(k)
        p == l * l * l * l
        q == (IF p >= 100000 THEN 1 ELSE 0) + (IF p >= 1000000 THEN 1 ELSE 0)
             + (IF p >= 10000000 THEN 1 ELSE 0)
    IN  Rat(4 * FloorLog10(k) + q, 4)

\* list.sort(key=..., reverse=True) on a sequence of <<key, item>> pairs: stable,
\* descending by key; each element goes after every element whose key is >= its own.
RECURSIVE InsertDesc(_, _)
InsertDesc(sorted, x) ==
    IF sorted = << >> THEN <<x>>
    ELSE IF RGe(Head(sorted)[1], x[1]) THEN <<Head(sorted)>> \o InsertDesc(Tail(sorted), x)
    ELSE <<x>> \o sorted

RECURSIVE SortDesc(_)
SortDesc(s) ==
    IF s = << >> THEN << >>
    ELSE InsertDesc(SortDesc(SubSeq(s, 1, Len(s) - 1)), s[Len(s)])

-----------------------------------------------------------------------------
(* strategy.py *)

Today == 0

_get_effective_thresholds(s) ==
    IF s.debug_mode THEN
        [min_dte_days |-> 0,
         max_dte_days |-> Max(s.unusual_max_dte_days, 60),
         min_notional |-> Min(s.unusual_min_notional, 1000),
         min_volume |-> Min(s.unusual_min_volume, 1),
         min_open_interest |-> Min(s.unusual_min_open_interest, 0),
         min_volume_oi_ratio |-> Min(s.unusual_min_volume_oi_ratio, 0),
         min_trade_count |-> Min(s.unusual_min_trade_count, 0),
         min_trade_size |-> Min(s.unusual_min_trade_size, 0),
         min_rvol |-> Min(s.unusual_min_rvol, 0),
         min_iv_pctile |-> Min(s.unusual_min_iv_pctile, 0),
         max_otm_pct |-> Max(s.unusual_max_otm_pct, 0),
         spread_threshold_bps |-> Max(s.unusual_spread_threshold_bps, 0),
         min_unusual_score |-> Min(s.unusual_min_unusual_score, 0)]
    ELSE
        [min_dte_days |-> s.unusual_min_dte_days,
         max_dte_days |-> s.unusual_max_dte_days,
         min_notional |-> s.unusual_min_notional,
         min_volume |-> s.unusual_min_volume,
         min_open_interest |-> s.unusual_min_open_interest,
         min_volume_oi_ratio |-> s.unusual_min_volume_oi_ratio,
         min_trade_count |-> s.unusual_min_trade_count,
         min_trade_size |-> s.unusual_min_trade_size,
         min_rvol |-> s.unusual_min_rvol,
         min_iv_pctile |-> s.unusual_min_iv_pctile,
         max_otm_pct |-> s.unusual_max_otm_pct,
         spread_threshold_bps |-> s.unusual_spread_threshold_bps,
         min_unusual_score |-> s.unusual_min_unusual_score]

\* Optional[float]: None, or Some(rational)
_calculate_mid_price(c) ==
    IF IsNone(c.bid) \/ IsNone(c.ask) THEN None
    ELSE Some(Rat(Val(c.bid) + Val(c.ask), 2))

\* contract.underlying_price or chain.underlying_price
_resolve_underlying_price(c, chainPrice) ==
    IF Truthy(c.underlying_price) THEN c.underlying_price ELSE chainPrice

\* a notional that forgets the contract multiplier
_calculate_notional_NoMultiplier(c, price, volume) ==
    IF ~IsNone(c.notional) /\ Val(c.notional) > 0 THEN F(Val(c.notional))
    ELSE IF IsNone(price) \/ IsNone(volume) THEN F(0)
    ELSE RMul(Val(price), F(Val(volume)))

\* price: Optional rational; volume: Optional int
_calculate_notional(c, price, volume) ==
    IF ~IsNone(c.notional) /\ Val(c.notional) > 0 THEN F(Val(c.notional))
    ELSE IF IsNone(price) \/ IsNone(volume) THEN F(0)
    ELSE RMul(RMul(Val(price), F(Val(volume))), F(100))

\* the ratio with its operands swapped
_calculate_ratio_Inverted(volume, open_interest) ==
    IF IsNone(volume) \/ Val(volume) = 0 THEN F(0)
    ELSE IF IsNone(open_interest) \/ Val(open_interest) = 0 THEN F(0)
    ELSE Rat(Val(open_interest), Val(volume))

\* a zero-open-interest policy that takes the ratio to be the raw volume
_calculate_ratio_RawVolume(volume, open_interest) ==
    IF IsNone(volume) \/ Val(volume) = 0 THEN F(0)
    ELSE IF IsNone(open_interest) \/ Val(open_interest) = 0 THEN F(Val(volume))
    ELSE Rat(Val(volume), Val(open_interest))

_calculate_ratio(volume, open_interest) ==
    IF IsNone(volume) \/ Val(volume) = 0 THEN F(0)
    ELSE IF IsNone(open_interest) \/ Val(open_interest) = 0 THEN F(0)
    ELSE Rat(Val(volume), Val(open_interest))

\* lines 98 and 100-103, for a given value of notional_log
ScoreSum(notional_log, ratio, dte_days, max_dte) ==
    LET ratio_capped == RMin(ratio, F(10))
        dte_bonus == IF max_dte > 0
                     THEN RMax(Rat(max_dte - dte_days, max_dte), F(0))
                     ELSE F(0)
    IN  RAdd(RAdd(ratio_capped, notional_log), dte_bonus)

_calculate_score(notional, ratio, dte_days, max_dte) ==
    ScoreSum(Log10(RMax(notional, F(1))), ratio, dte_days, max_dte)

\* `contract.last_price or mid_price` (lines 174 and 245): Optional rational
ResolvePrice(c) ==
    IF Truthy(c.last_price) THEN Some(F(Val(c.last_price)))
    ELSE _calculate_mid_price(c)


\* str.lower() / str.upper() on the contract-type strings of the model
LowerStr(s) ==
    CASE s \in {"call", "CALL", "Call"} -> "call"
      [] s \in {"put", "PUT"} -> "put"
      [] s = "FUTURE" -> "future"
      [] OTHER -> s

UpperStr(s) ==
    CASE s \in {"call", "CALL", "Call"} -> "CALL"
      [] s \in {"put", "PUT"} -> "PUT"
      [] s = "FUTURE" -> "FUTURE"
      [] OTHER -> s

\* `not contract.expiration_date or not contract.contract_type`: a date is always
\* truthy, a string is falsy when empty
MissingExpiryOrType(c) ==
    IsNone(c.expiration_date) \/ IsNone(c.contract_type) \/ Val(c.contract_type) = ""

DteDays(c) == Val(c.expiration_date) - Today

\* a sweep heuristic that forgets the notional condition
_detect_sweep_NoNotional(c, notional, ratio, min_notional) ==
    IF c.sweep = Some(TRUE) THEN TRUE
    ELSE
        LET volume == OrZero(c.volume)
            open_interest == OrZero(c.open_interest)
            aggressive_volume == IF open_interest > 0
                                 THEN volume >= 5 * open_interest
                                 ELSE RGe(ratio, F(3))
            mid_price == _calculate_mid_price(c)
            price_ok == IF ~IsNone(mid_price) /\ ~IsNone(c.last_price)
                        THEN RGe(F(Val(c.last_price)), Val(mid_price))
                        ELSE TRUE
        IN  aggressive_volume /\ price_ok

_detect_sweep(c, notional, ratio, min_notional) ==
    IF c.sweep = Some(TRUE) THEN TRUE
    ELSE
        LET volume == OrZero(c.volume)
            open_interest == OrZero(c.open_interest)
            aggressive_volume == IF open_interest > 0
                                 THEN volume >= 5 * open_interest
                                 ELSE RGe(ratio, F(3))
            notional_ok == RGe(notional, F(2 * min_notional))
            mid_price == _calculate_mid_price(c)
            price_ok == IF ~IsNone(mid_price) /\ ~IsNone(c.last_price)
                        THEN RGe(F(Val(c.last_price)), Val(mid_price))
                        ELSE TRUE
        IN  aggressive_volume /\ notional_ok /\ price_ok

_candidate_from_contract(c, src, notional, ratio, dte_days, score, is_sweep, flow_type, debug_alert) ==
    [src |-> src,
     direction |-> IF LowerStr(IF IsNone(c.contract_type) THEN "" ELSE Val(c.contract_type)) = "call"
                   THEN "BULLISH" ELSE "BEARISH",
     expiration_date |-> c.expiration_date,
     contract_type |-> UpperStr(IF IsNone(c.contract_type) THEN "" ELSE Val(c.contract_type)),
     last_price |-> IF IsNone(c.last_price) THEN None ELSE Some(F(Val(c.last_price))),
     volume |-> c.volume,
     open_interest |-> c.open_interest,
     notional |-> notional,
     volume_oi_ratio |-> Some(ratio),
     dte_days |-> dte_days,
     score |-> score,
     is_sweep |-> is_sweep,
     flow_type |-> flow_type,
     debug_alert |-> debug_alert]

Range(seq) == {seq[k] : k \in 1..Len(seq)}

IfSeq(cond, r) == IF cond THEN <<r>> ELSE << >>

\* an early rejection that records no reason
MissingReasons_Empty(c) == << >>

\* reasons.append("missing_expiry_or_type") (line 215)
MissingReasons(c) == <<"missing_expiry_or_type">>

\* a DTE filter that forgets the upper bound
DteRejected_NoMax(dte_days, th) == dte_days < th.min_dte_days

\* line 227
DteRejected(dte_days, th) == dte_days < th.min_dte_days \/ dte_days > th.max_dte_days

\* otm_pct > thresholds.max_otm_pct (lines 272-277)
OtmRejected(c, th, chainPrice) ==
    /\ th.max_otm_pct > 0
    /\ LET underlying_price == _resolve_underlying_price(c, chainPrice)
       IN  /\ Truthy(underlying_price)
           /\ Truthy(c.strike)
           /\ RGt(RMul(RAbs(Rat(Val(c.strike) - Val(underlying_price), Val(underlying_price))), F(100)),
                  F(th.max_otm_pct))

\* spread_bps > thresholds.spread_threshold_bps (lines 279-285)
SpreadRejected(c, th) ==
    /\ th.spread_threshold_bps > 0
    /\ ~IsNone(c.bid)
    /\ ~IsNone(c.ask)
    /\ LET mid == Val(_calculate_mid_price(c))
       IN  /\ mid.n > 0
           /\ RGt(RMul(RDiv(F(Val(c.ask) - Val(c.bid)), mid), F(10000)),
                  F(th.spread_threshold_bps))

\* ratio < thresholds.min_volume_oi_ratio (line 254)
RatioRejected(ratio, th) == RLt(ratio, F(th.min_volume_oi_ratio))

\* a floor test that reads a missing value as 0
FloorRejected_NullAsZero(value, floor) == OrZero(value) < floor

\* `x is not None and x < floor` (lines 238, 241, 257, 260-263, 266-269)
FloorRejected(value, floor) == ~IsNone(value) /\ Val(value) < floor

\* the list `reasons` of one loop iteration of find_unusual_activity (lines 212-285)
ContractReasons(c, th, chainPrice) ==
    IF MissingExpiryOrType(c) THEN MissingReasons(c)
    ELSE
        LET dte_days == DteDays(c)
            price == ResolvePrice(c)
            notional == _calculate_notional(c, price, c.volume)
            ratio == _calculate_ratio(c.volume, c.open_interest)
        IN  IfSeq(DteRejected(dte_days, th), "dte")
            \o IfSeq(OrZero(c.volume) < th.min_volume, "volume")
            \o IfSeq(OrZero(c.open_interest) < th.min_open_interest, "open_interest")
            \o IfSeq(FloorRejected(c.trade_count, th.min_trade_count), "trade_count")
            \o IfSeq(FloorRejected(c.trade_size, th.min_trade_size), "trade_size")
            \o IfSeq(IsNone(price) /\ ~Truthy(c.notional), "price")
            \o IfSeq(RLt(notional, F(th.min_notional)), "notional")
            \o IfSeq(RatioRejected(ratio, th), "volume_oi_ratio")
            \o IfSeq(FloorRejected(c.rvol, th.min_rvol), "rvol")
            \o IfSeq(FloorRejected(c.iv_percentile, th.min_iv_pctile), "iv_pctile")
            \o IfSeq(FloorRejected(c.unusual_score, th.min_unusual_score), "unusual_score")
            \o IfSeq(OtmRejected(c, th, chainPrice), "otm_pct")
            \o IfSeq(SpreadRejected(c, th), "spread_bps")

\* a candidate labelled STANDARD whatever the sweep classification
AcceptedCandidate_AlwaysStandard(c, src, th) ==
    LET dte_days == DteDays(c)
        notional == _calculate_notional(c, ResolvePrice(c), c.volume)
        ratio == _calculate_ratio(c.volume, c.open_interest)
        score == _calculate_score(notional, ratio, dte_days, th.max_dte_days)
        is_sweep == _detect_sweep(c, notional, ratio, th.min_notional)
    IN  _candidate_from_contract(c, src, notional, ratio, dte_days, score, is_sweep,
                                 "STANDARD", FALSE)

\* a candidate whose score leaks the running position in the chain
AcceptedCandidate_Positional(c, src, th) ==
    LET dte_days == DteDays(c)
        notional == _calculate_notional(c, ResolvePrice(c), c.volume)
        ratio == _calculate_ratio(c.volume, c.open_interest)
        score == RAdd(_calculate_score(notional, ratio, dte_days, th.max_dte_days), F(src - 1))
        is_sweep == _detect_sweep(c, notional, ratio, th.min_notional)
    IN  _candidate_from_contract(c, src, notional, ratio, dte_days, score, is_sweep,
                                 IF is_sweep THEN "SWEEP" ELSE "STANDARD", FALSE)

\* the Candidate of an accepted contract (lines 297-310)
AcceptedCandidate(c, src, th) ==
    LET dte_days == DteDays(c)
        notional == _calculate_notional(c, ResolvePrice(c), c.volume)
        ratio == _calculate_ratio(c.volume, c.open_interest)
        score == _calculate_score(notional, ratio, dte_days, th.max_dte_days)
        is_sweep == _detect_sweep(c, notional, ratio, th.min_notional)
    IN  _candidate_from_contract(c, src, notional, ratio, dte_days, score, is_sweep,
                                 IF is_sweep THEN "SWEEP" ELSE "STANDARD", FALSE)

RECURSIVE FindLoop(_, _, _, _)
\* the list `candidates` after the loop of lines 211-311 over contracts[i..]
FindLoop(contracts, th, chainPrice, i) ==
    IF i > Len(contracts) THEN << >>
    ELSE IF MissingExpiryOrType(contracts[i])
            \/ ContractReasons(contracts[i], th, chainPrice) # << >>
         THEN FindLoop(contracts, th, chainPrice, i + 1)
    ELSE <<AcceptedCandidate(contracts[i], i, th)>> \o FindLoop(contracts, th, chainPrice, i + 1)

max_alerts == 2

\* the indices of the contracts _build_debug_candidates scores (lines 168-181)
DebugScoredIdx(contracts) ==
    {i \in 1..Len(contracts) :
        ~MissingExpiryOrType(contracts[i]) /\ ~IsNone(ResolvePrice(contracts[i]))}

RECURSIVE DebugScored(_, _)
\* the list `scored` as <<notional, candidate>> pairs, for contracts[i..]
DebugScored(contracts, i) ==
    IF i > Len(contracts) THEN << >>
    ELSE IF i \notin DebugScoredIdx(contracts) THEN DebugScored(contracts, i + 1)
    ELSE
        LET c == contracts[i]
            dte_days == DteDays(c)
            notional == _calculate_notional(c, ResolvePrice(c), c.volume)
            ratio == _calculate_ratio(c.volume, c.open_interest)
            score == _calculate_score(notional, ratio, Max(dte_days, 0), Max(dte_days, 1))
        IN  <<<<notional,
                _candidate_from_contract(c, i, notional, ratio, dte_days, score,
                                         FALSE, "DEBUG", TRUE)>>>>
            \o DebugScored(contracts, i + 1)

Items(pairs) == [k \in 1..Len(pairs) |-> pairs[k][2]]

\* a fallback that returns every scored contract
_build_debug_candidates_Uncut(contracts) == Items(SortDesc(DebugScored(contracts, 1)))

\* lines 182-199
_build_debug_candidates(contracts) ==
    LET sorted == SortDesc(DebugScored(contracts, 1))
    IN  Items(SubSeq(sorted, 1, Min(max_alerts, Len(sorted))))

\* candidates.sort(key=lambda item: item.score, reverse=True)
SortByScore(cands) == Items(SortDesc([k \in 1..Len(cands) |-> <<cands[k].score, cands[k]>>]))


-----------------------------------------------------------------------------
(* worker.py *)

\* an ISO date string is <<"iso", day>>; any other non-empty string is <<"bad">>
_parse_expiration(expiration) ==
    IF IsNone(expiration) THEN None
    ELSE IF Len(Val(expiration)) = 2 THEN Some(Val(expiration)[2])
    ELSE None

_calculate_midpoint(c) ==
    IF IsNone(c.last_quote) THEN None
    ELSE
        LET q == Val(c.last_quote)
        IN  IF ~IsNone(q.midpoint) THEN Some(F(Val(q.midpoint)))
            ELSE IF IsNone(q.bid) \/ IsNone(q.ask) THEN None
            ELSE Some(Rat(Val(q.bid) + Val(q.ask), 2))

_get_last_price(c, midpoint) ==
    IF ~IsNone(c.last_trade) /\ ~IsNone(Val(c.last_trade).price)
        THEN Some(F(Val(Val(c.last_trade).price)))
    ELSE IF ~IsNone(c.last_price) THEN Some(F(Val(c.last_price)))
    ELSE IF ~IsNone(midpoint) THEN midpoint
    ELSE IF ~IsNone(c.day) /\ ~IsNone(Val(c.day).close) THEN Some(F(Val(Val(c.day).close)))
    ELSE IF ~IsNone(c.prev_day) /\ ~IsNone(Val(c.prev_day).close)
        THEN Some(F(Val(Val(c.prev_day).close)))
    ELSE None

_calculate_premium(last_price, volume, shares_per_contract) ==
    IF IsNone(last_price) \/ volume <= 0 THEN F(0)
    ELSE RMul(RMul(Val(last_price), F(volume)), F(shares_per_contract))

_calculate_volume_oi_ratio(volume, open_interest) ==
    IF Truthy(open_interest) /\ Val(open_interest) > 0
    THEN Some(Rat(volume, Val(open_interest)))
    ELSE None

\* round(x, 2), ties to even
Round2(x) ==
    LET q == (100 * x.n) \div x.d
        r == 100 * x.n - q * x.d
    IN  IF 2 * r < x.d THEN Rat(q, 100)
        ELSE IF 2 * r > x.d THEN Rat(q + 1, 100)
        ELSE IF q % 2 = 0 THEN Rat(q, 100) ELSE Rat(q + 1, 100)

\* the ratio term of worker._calculate_score (lines 137-138)
ScoreRatioValue(volume_oi_ratio) ==
    IF ~IsNone(volume_oi_ratio) THEN Val(volume_oi_ratio) ELSE F(1)

\* worker._calculate_score
worker_calculate_score(notional, volume_oi_ratio, rvol, dte_days) ==
    LET notional_score == RMin(RMax(RDiv(notional, F(100000)), F(0)), F(10))
        rvol_value == IF ~IsNone(rvol) THEN F(Val(rvol)) ELSE F(1)
        rvol_score == RMin(RMax(rvol_value, F(0)), F(10))
        ratio_value == ScoreRatioValue(volume_oi_ratio)
        ratio_score == RMin(RMax(ratio_value, F(0)), F(10))
        dte_score == IF dte_days <= 0 THEN F(0)
                     ELSE IF dte_days <= 7 THEN F(5)
                     ELSE IF dte_days <= 21 THEN F(3)
                     ELSE F(1)
        raw_score == RAdd(RAdd(RMul(notional_score, Rat(4, 10)), RMul(rvol_score, Rat(3, 10))),
                          RAdd(RMul(ratio_score, Rat(2, 10)), RMul(dte_score, Rat(1, 10))))
    IN  Round2(RMin(raw_score, F(50)))

\* lines 241-246
ScanVolume(c) ==
    IF ~IsNone(c.day) /\ ~IsNone(Val(c.day).volume) THEN Val(Val(c.day).volume)
    ELSE IF ~IsNone(c.prev_day) /\ ~IsNone(Val(c.prev_day).volume) THEN Val(Val(c.prev_day).volume)
    ELSE OrZero(c.volume)

\* lines 250-255
ScanOpenInterest(c) ==
    IF ~IsNone(c.day) /\ ~IsNone(Val(c.day).open_interest) THEN Val(c.day).open_interest
    ELSE IF ~IsNone(c.prev_day) /\ ~IsNone(Val(c.prev_day).open_interest)
        THEN Val(c.prev_day).open_interest
    ELSE c.open_interest

ScanNotional(c) ==
    _calculate_premium(_get_last_price(c, _calculate_midpoint(c)), ScanVolume(c),
                       IF Truthy(c.details.shares_per_contract)
                       THEN Val(c.details.shares_per_contract) ELSE 100)

ScanRatio(c) == _calculate_volume_oi_ratio(ScanVolume(c), ScanOpenInterest(c))

ScanDte(c) == Val(_parse_expiration(c.details.expiration_date)) - Today

ScanScore(c) == worker_calculate_score(ScanNotional(c), ScanRatio(c), c.rvol, ScanDte(c))

\* lines 235-239
ScanDteRejected(dte_days, s) ==
    dte_days < s.unusual_min_dte_days \/ dte_days > s.unusual_max_dte_days

\* lines 258-267
ScanRatioRejected(volume_oi_ratio, s) ==
    \/ (IsNone(volume_oi_ratio) /\ s.unusual_min_volume_oi_ratio > 0)
    \/ (~IsNone(volume_oi_ratio) /\ RLt(Val(volume_oi_ratio), F(s.unusual_min_volume_oi_ratio)))

\* the filters of one loop iteration of _scan_once (lines 230-281): TRUE when the
\* contract is dropped by a `continue`
ScanSkippedBeforeScore(c, s) ==
    \/ IsNone(_parse_expiration(c.details.expiration_date))
    \/ IsNone(c.details.contract_type)
    \/ Val(c.details.contract_type) = ""
    \/ ScanDteRejected(ScanDte(c), s)
    \/ ScanVolume(c) < s.unusual_min_volume
    \/ ScanRatioRejected(ScanRatio(c), s)
    \/ RLt(ScanNotional(c), F(s.unusual_min_notional))

ScanSkipped(c, s) ==
    \/ ScanSkippedBeforeScore(c, s)
    \/ RLt(ScanScore(c), F(s.unusual_min_unusual_score))

\* UnusualOptionsCandidate(...) of lines 299-315 fails validation when a required,
\* non-Optional field (options_ticker: str, volume_oi_ratio: float) is given None
ScanCandidateInvalid(c) == IsNone(c.details.ticker) \/ IsNone(ScanRatio(c))

ScanCandidate(c, src) ==
    [src |-> src,
     direction |-> IF LowerStr(Val(c.details.contract_type)) = "call" THEN "BULLISH" ELSE "BEARISH",
     expiration_date |-> _parse_expiration(c.details.expiration_date),
     contract_type |-> UpperStr(Val(c.details.contract_type)),
     last_price |-> _get_last_price(c, _calculate_midpoint(c)),
     volume |-> Some(ScanVolume(c)),
     open_interest |-> ScanOpenInterest(c),
     notional |-> ScanNotional(c),
     volume_oi_ratio |-> ScanRatio(c),
     dte_days |-> ScanDte(c),
     score |-> ScanScore(c),
     is_sweep |-> FALSE,
     flow_type |-> "STANDARD",
     debug_alert |-> FALSE]


-----------------------------------------------------------------------------
(* Bounded inputs *)

\* longest chain of contracts evaluated in the chain modes
MaxContracts == 2

Merge(base, patch) == [f \in DOMAIN base |-> IF f \in DOMAIN patch THEN patch[f] ELSE base[f]]

\* Settings: the defaults of config.py where it has them
BaseSettings ==
    [debug_mode |-> FALSE,
     unusual_max_dte_days |-> 30,
     unusual_min_dte_days |-> 1,
     unusual_min_notional |-> 100000,
     unusual_min_volume_oi_ratio |-> 1,
     unusual_min_volume |-> 10,
     unusual_min_open_interest |-> 1,
     unusual_min_trade_count |-> 2,
     unusual_min_trade_size |-> 2,
     unusual_min_rvol |-> 1,
     unusual_min_iv_pctile |-> 10,
     unusual_max_otm_pct |-> 20,
     unusual_spread_threshold_bps |-> 500,
     unusual_min_unusual_score |-> 0]

FindSettings ==
    {Merge(BaseSettings, [debug_mode |-> d, unusual_min_unusual_score |-> m]) :
        d \in BOOLEAN, m \in {0, 3, 7}}

ScanSettings ==
    {Merge(BaseSettings, [unusual_min_volume_oi_ratio |-> r, unusual_min_unusual_score |-> m]) :
        r \in {0, 1}, m \in {0, 3, 7}}

\* OptionContractSnapshot: accepted, and a sweep by the heuristics
BaseContract ==
    [expiration_date |-> Some(5), contract_type |-> Some("call"),
     last_price |-> Some(5), bid |-> Some(5), ask |-> Some(5),
     volume |-> Some(1000), open_interest |-> Some(200),
     sweep |-> None, trade_count |-> None, trade_size |-> None, notional |-> None,
     rvol |-> None, iv_percentile |-> None, unusual_score |-> None,
     underlying_price |-> None, strike |-> None]

ChainPatches ==
    {[expiration_date |-> None],
     [expiration_date |-> Some(-1)],
     [expiration_date |-> Some(45)],
     [contract_type |-> Some("PUT")],
     [volume |-> Some(200), open_interest |-> Some(200)],
     [volume |-> Some(200), open_interest |-> Some(40)],
     [volume |-> Some(1000), open_interest |-> Some(0)],
     [volume |-> Some(2), open_interest |-> Some(0)],
     [volume |-> Some(200), open_interest |-> Some(400)],
     [volume |-> Some(1000), open_interest |-> Some(300)],
     [last_price |-> None, bid |-> None, ask |-> None],
     [last_price |-> Some(0), bid |-> Some(5), ask |-> Some(5)],
     [notional |-> Some(700000)],
     [sweep |-> Some(TRUE)],
     [unusual_score |-> Some(1)]}

SinglePatches ==
    ChainPatches \cup
    {[contract_type |-> None],
     [contract_type |-> Some("")],
     [contract_type |-> Some("FUTURE")],
     [volume |-> None, open_interest |-> None],
     [volume |-> Some(5), open_interest |-> Some(200)],
     [last_price |-> Some(4), bid |-> Some(5), ask |-> Some(5)],
     [last_price |-> Some(5), bid |-> None, ask |-> None],
     [last_price |-> None],
     [last_price |-> Some(5), bid |-> Some(4), ask |-> Some(6)],
     [sweep |-> Some(FALSE)],
     [trade_count |-> Some(1)],
     [trade_size |-> Some(1)],
     [rvol |-> Some(0)],
     [iv_percentile |-> Some(5)],
     [strike |-> Some(150), underlying_price |-> Some(100)],
     [strike |-> Some(150)]}

\* the contracts of a chain: the base contract with at most one group of fields changed
ChainContracts == {BaseContract} \cup {Merge(BaseContract, p) : p \in ChainPatches}

\* a contract evaluated alone: at most two groups of fields changed
SingleContracts == {Merge(Merge(BaseContract, p), q) : p, q \in SinglePatches} \cup ChainContracts

\* the snapshot record _scan_once reads (details, last_quote, last_trade, day, prev_day, ...)
BaseScanContract ==
    [details |-> [ticker |-> Some("O:SPY"), strike_price |-> Some(100),
                  expiration_date |-> Some(<<"iso", 5>>), contract_type |-> Some("call"),
                  shares_per_contract |-> None],
     last_quote |-> Some([midpoint |-> None, bid |-> Some(5), ask |-> Some(5)]),
     last_trade |-> Some([price |-> Some(5)]),
     last_price |-> None,
     day |-> Some([volume |-> Some(1000), open_interest |-> Some(200), close |-> None]),
     prev_day |-> None,
     volume |-> None, open_interest |-> None, rvol |-> None, sweep |-> None]

ScanDetails(patch) == [details |-> Merge(BaseScanContract.details, patch)]

ScanChainPatches ==
    {ScanDetails([expiration_date |-> None]),
     ScanDetails([expiration_date |-> Some(<<"iso", -1>>)]),
     ScanDetails([expiration_date |-> Some(<<"iso", 45>>)]),
     ScanDetails([contract_type |-> Some("PUT")]),
     [day |-> Some([volume |-> Some(200), open_interest |-> Some(200), close |-> None])],
     [day |-> Some([volume |-> Some(1000), open_interest |-> Some(0), close |-> None])],
     [last_trade |-> None, last_quote |-> None],
     [rvol |-> Some(3)],
     [sweep |-> Some(TRUE)]}

ScanSinglePatches ==
    ScanChainPatches \cup
    {ScanDetails([expiration_date |-> Some(<<"bad">>)]),
     ScanDetails([contract_type |-> None]),
     ScanDetails([contract_type |-> Some("FUTURE")]),
     ScanDetails([ticker |-> None]),
     ScanDetails([shares_per_contract |-> Some(50)]),
     [day |-> Some([volume |-> Some(5), open_interest |-> Some(200), close |-> None])],
     [day |-> None, prev_day |-> Some([volume |-> Some(200), open_interest |-> Some(40), close |-> Some(5)])],
     [day |-> None, volume |-> Some(1000), open_interest |-> Some(200)],
     [last_trade |-> None],
     [last_trade |-> None, last_quote |-> None, last_price |-> Some(4)]}

ScanChainContracts == {BaseScanContract} \cup {Merge(BaseScanContract, p) : p \in ScanChainPatches}

ScanSingleContracts ==
    {Merge(Merge(BaseScanContract, p), q) : p, q \in ScanSinglePatches} \cup ScanChainContracts

\* chains for the debug fallback: contracts that expired yesterday, which the
\* debug thresholds reject too, with different notionals; contracts the fallback
\* cannot price or date; and the base contract, which is accepted
DebugContracts ==
    {Merge(BaseContract, [expiration_date |-> Some(-1)]),
     Merge(BaseContract, [expiration_date |-> Some(-1), volume |-> Some(200)]),
     Merge(BaseContract, [expiration_date |-> Some(-1), volume |-> Some(2), open_interest |-> Some(0)]),
     Merge(BaseContract, [expiration_date |-> Some(-1), notional |-> Some(700000)]),
     Merge(BaseContract, [expiration_date |-> Some(-1), sweep |-> Some(TRUE)]),
     Merge(BaseContract, [expiration_date |-> None]),
     Merge(BaseContract, [last_price |-> None, bid |-> None, ask |-> None]),
     BaseContract}

FindModes == {"find_chain", "find_single", "find_debug"}
ScanModes == {"scan_chain", "scan_single"}

\* the contracts the next loop iteration may meet, and how many the chain may hold
Pool == CASE mode = "find_chain" -> ChainContracts
          [] mode = "find_single" -> SingleContracts
          [] mode = "find_debug" -> DebugContracts
          [] mode = "scan_chain" -> ScanChainContracts
          [] mode = "scan_single" -> ScanSingleContracts
          [] OTHER -> {}

Limit == CASE mode \in {"find_chain", "scan_chain"} -> MaxContracts
           [] mode = "find_debug" -> MaxContracts + 1
           [] OTHER -> 1

-----------------------------------------------------------------------------
(* find_unusual_activity *)

InitFind ==
    /\ mode \in {"find_chain", "find_single"}
    /\ pc = "start"
    /\ settings \in FindSettings
    /\ chain = << >>
    /\ chain_price \in {None, Some(100)}
    /\ thresholds = None
    /\ candidates = << >>
    /\ reasons_log = << >>
    /\ calls = {}
    /\ result = << >>
    /\ input = None
    /\ output = None

\* lines 206-209
FindBegin ==
    /\ mode \in FindModes
    /\ pc = "start"
    /\ thresholds' = _get_effective_thresholds(settings)
    /\ pc' = "loop"
    /\ UNCHANGED <<mode, settings, chain, chain_price, candidates, reasons_log, calls,
                   result, input, output>>

\* one iteration of `for contract in chain.contracts` (lines 211-318)
EvaluateContract ==
    /\ mode \in FindModes
    /\ pc = "loop"
    /\ Len(chain) < Limit
    /\ \E c \in Pool :
        LET i == Len(chain) + 1
            reasons == ContractReasons(c, thresholds, chain_price)
        IN  /\ chain' = Append(chain, c)
            /\ reasons_log' = Append(reasons_log, reasons)
            /\ IF MissingExpiryOrType(c) \/ reasons # << >>
               THEN UNCHANGED <<candidates, calls>>
               ELSE /\ candidates' = Append(candidates, AcceptedCandidate(c, i, thresholds))
                    /\ calls' = calls \cup {<<"_calculate_score", i>>, <<"_detect_sweep", i>>}
    /\ UNCHANGED <<mode, pc, settings, chain_price, thresholds, result, input, output>>

\* lines 320-335
FindReturn ==
    /\ mode \in FindModes
    /\ pc = "loop"
    /\ candidates' = SortByScore(candidates)
    /\ IF settings.debug_mode /\ candidates = << >>
       THEN /\ result' = _build_debug_candidates(chain)
            /\ calls' = calls \cup {<<"_calculate_score", i>> : i \in DebugScoredIdx(chain)}
       ELSE /\ result' = SortByScore(candidates)
            /\ UNCHANGED calls
    /\ pc' = "done"
    /\ UNCHANGED <<mode, settings, chain, chain_price, thresholds, reasons_log, input, output>>

\* find_unusual_activity on chains of up to MaxContracts + 1 contracts, most of
\* them rejected, with and without debug_mode
InitDebug ==
    /\ mode = "find_debug"
    /\ pc = "start"
    /\ settings \in {Merge(BaseSettings, [debug_mode |-> d]) : d \in BOOLEAN}
    /\ chain = << >>
    /\ chain_price = None
    /\ thresholds = None
    /\ candidates = << >>
    /\ reasons_log = << >>
    /\ calls = {}
    /\ result = << >>
    /\ input = None
    /\ output = None

NextDebug == FindBegin \/ EvaluateContract \/ FindReturn

SpecDebug == InitDebug /\ [][NextDebug]_vars

-----------------------------------------------------------------------------
(* _scan_once, for one ticker of the universe *)

InitScan ==
    /\ mode \in ScanModes
    /\ pc = "start"
    /\ settings \in ScanSettings
    /\ chain = << >>
    /\ chain_price = None
    /\ thresholds = None
    /\ candidates = << >>
    /\ reasons_log = << >>
    /\ calls = {}
    /\ result = << >>
    /\ input = None
    /\ output = None

\* lines 184-208: the snapshot is loaded and holds contracts
ScanFetch ==
    /\ mode \in ScanModes
    /\ pc = "start"
    /\ pc' = "loop"
    /\ UNCHANGED <<mode, settings, chain, chain_price, thresholds, candidates, reasons_log,
                   calls, result, input, output>>

\* one iteration of `for contract in contracts` (lines 209-316)
ScanContract ==
    /\ mode \in ScanModes
    /\ pc = "loop"
    /\ Len(chain) < Limit
    /\ \E c \in Pool :
        LET i == Len(chain) + 1
        IN  /\ chain' = Append(chain, c)
            /\ calls' = IF ScanSkippedBeforeScore(c, settings) THEN calls
                        ELSE calls \cup {<<"_calculate_score", i>>}
            /\ IF ScanSkipped(c, settings)
               THEN UNCHANGED <<candidates, pc>>
               ELSE IF ScanCandidateInvalid(c)
               THEN pc' = "raised" /\ UNCHANGED candidates
               ELSE candidates' = Append(candidates, ScanCandidate(c, i)) /\ UNCHANGED pc
    /\ UNCHANGED <<mode, settings, chain_price, thresholds, reasons_log, result, input, output>>

\* lines 318-339: every candidate is handed to the sinks, in list order
ScanDeliver ==
    /\ mode \in ScanModes
    /\ pc = "loop"
    /\ result' = candidates
    /\ pc' = "done"
    /\ UNCHANGED <<mode, settings, chain, chain_price, thresholds, candidates, reasons_log,
                   calls, input, output>>

Init == InitFind \/ InitScan

Next == FindBegin \/ EvaluateContract \/ FindReturn \/ ScanFetch \/ ScanContract \/ ScanDeliver

Spec == Init /\ [][Next]_vars


-----------------------------------------------------------------------------
(* _get_effective_thresholds, called for one configuration with debug_mode unset
   and with debug_mode set *)

ThresholdSettings ==
    [debug_mode : {FALSE},
     unusual_max_dte_days : {30, 90},
     unusual_min_dte_days : {-1, 1},
     unusual_min_notional : {500, 100000},
     unusual_min_volume_oi_ratio : {0, 1},
     unusual_min_volume : {0, 10},
     unusual_min_open_interest : {0, 1},
     unusual_min_trade_count : {0, 2},
     unusual_min_trade_size : {0, 2},
     unusual_min_rvol : {0, 1},
     unusual_min_iv_pctile : {0, 10},
     unusual_max_otm_pct : {0, 20},
     unusual_spread_threshold_bps : {0, 500},
     unusual_min_unusual_score : {0, 3}]

InitThresholds ==
    /\ mode = "thresholds"
    /\ pc = "start"
    /\ settings \in ThresholdSettings
    /\ chain = << >>
    /\ chain_price = None
    /\ thresholds = None
    /\ candidates = << >>
    /\ reasons_log = << >>
    /\ calls = {}
    /\ result = None
    /\ input = None
    /\ output = None

\* the production value is kept in `thresholds`
ResolveProduction ==
    /\ mode = "thresholds"
    /\ thresholds = None
    /\ thresholds' = _get_effective_thresholds([settings EXCEPT !.debug_mode = FALSE])
    /\ UNCHANGED <<mode, pc, settings, chain, chain_price, candidates, reasons_log, calls,
                   result, input, output>>

\* the diagnostic value is kept in `result`
ResolveDebug ==
    /\ mode = "thresholds"
    /\ result = None
    /\ result' = _get_effective_thresholds([settings EXCEPT !.debug_mode = TRUE])
    /\ UNCHANGED <<mode, pc, settings, chain, chain_price, thresholds, candidates,
                   reasons_log, calls, input, output>>

NextThresholds == ResolveProduction \/ ResolveDebug

SpecThresholds == InitThresholds /\ [][NextThresholds]_vars

-----------------------------------------------------------------------------
(* _detect_sweep, called directly *)

SweepContracts ==
    {Merge(BaseContract,
           [sweep |-> sw, volume |-> v, open_interest |-> oi, last_price |-> lp,
            bid |-> ba[1], ask |-> ba[2]]) :
        sw \in {None, Some(TRUE), Some(FALSE)},
        v \in {None, Some(0), Some(50), Some(1000)},
        oi \in {None, Some(0), Some(10), Some(200)},
        lp \in {None, Some(0), Some(4), Some(5)},
        ba \in {<<None, None>>, <<Some(5), Some(5)>>, <<Some(4), Some(6)>>, <<Some(5), None>>}}

InitSweep ==
    /\ mode = "sweep"
    /\ pc = "start"
    /\ settings = BaseSettings
    /\ chain = << >>
    /\ chain_price = None
    /\ thresholds = None
    /\ candidates = << >>
    /\ reasons_log = << >>
    /\ calls = {}
    /\ result = << >>
    /\ input \in [contract : SweepContracts,
                     notional : {F(0), F(199999), F(200000), F(500000)},
                     ratio : {F(0), Rat(5, 2), F(3), F(5)},
                     min_notional : {1000, 100000}]
    /\ output = None

DetectSweep ==
    /\ mode = "sweep"
    /\ pc = "start"
    /\ output' = Some(_detect_sweep(input.contract, input.notional, input.ratio,
                                       input.min_notional))
    /\ pc' = "done"
    /\ UNCHANGED <<mode, settings, chain, chain_price, thresholds, candidates, reasons_log,
                   calls, result, input>>

SpecSweep == InitSweep /\ [][DetectSweep]_vars


-----------------------------------------------------------------------------
(* the volume / open-interest ratio as each pipeline computes and filters it *)

InitRatio ==
    /\ mode = "ratio"
    /\ pc = "start"
    /\ settings \in {Merge(BaseSettings, [unusual_min_volume_oi_ratio |-> r]) : r \in {0, 1, 3}}
    /\ chain = << >>
    /\ chain_price = None
    /\ thresholds = None
    /\ candidates = << >>
    /\ reasons_log = << >>
    /\ calls = {}
    /\ result = << >>
    /\ input \in [volume : {0, 1, 5, 50, 200, 1000},
                   open_interest : {None, Some(0), Some(10), Some(200)}]
    /\ output = None

\* strategy.py lines 253-255 and 298; worker.py lines 257-267 and 279
ComputeRatios ==
    /\ mode = "ratio"
    /\ pc = "start"
    /\ LET th == _get_effective_thresholds(settings)
           ratio == _calculate_ratio(Some(input.volume), input.open_interest)
           volume_oi_ratio == _calculate_volume_oi_ratio(input.volume, input.open_interest)
       IN  output' = [strategy_ratio |-> Some(ratio),
                      strategy_rejected |-> RatioRejected(ratio, th),
                      worker_ratio |-> volume_oi_ratio,
                      worker_rejected |-> ScanRatioRejected(volume_oi_ratio, settings),
                      worker_score_ratio |-> Some(ScoreRatioValue(volume_oi_ratio))]
    /\ pc' = "done"
    /\ UNCHANGED <<mode, settings, chain, chain_price, thresholds, candidates, reasons_log,
                   calls, result, input>>

SpecRatio == InitRatio /\ [][ComputeRatios]_vars


-----------------------------------------------------------------------------
(* the price each pipeline resolves for one record *)

\* the record as find_unusual_activity reads it (models.py lines 32-50)
StrategyView(rec) ==
    Merge(BaseContract, [last_price |-> rec.last_price, bid |-> rec.bid, ask |-> rec.ask])

\* the record as _scan_once reads it (worker.py lines 88-109)
WorkerView(rec) ==
    Merge(BaseScanContract,
          [last_trade |-> Some([price |-> rec.trade_price]),
           last_price |-> rec.last_price,
           last_quote |-> Some([midpoint |-> None, bid |-> rec.bid, ask |-> rec.ask]),
           day |-> Some([volume |-> Some(1000), open_interest |-> Some(200),
                         close |-> rec.day_close]),
           prev_day |-> Some([volume |-> None, open_interest |-> None,
                              close |-> rec.prev_close])])

InitPrice ==
    /\ mode = "price"
    /\ pc = "start"
    /\ settings = BaseSettings
    /\ chain = << >>
    /\ chain_price = None
    /\ thresholds = None
    /\ candidates = << >>
    /\ reasons_log = << >>
    /\ calls = {}
    /\ result = << >>
    /\ input \in [trade_price : {None, Some(6)},
                   last_price : {None, Some(0), Some(4)},
                   bid : {None, Some(5)},
                   ask : {None, Some(5)},
                   day_close : {None, Some(3)},
                   prev_close : {None, Some(2)}]
    /\ output = None

\* strategy.py lines 244-245; worker.py lines 214-215
ResolvePrices ==
    /\ mode = "price"
    /\ pc = "start"
    /\ output' = [strategy |-> ResolvePrice(StrategyView(input)),
                  worker |-> _get_last_price(WorkerView(input),
                                             _calculate_midpoint(WorkerView(input)))]
    /\ pc' = "done"
    /\ UNCHANGED <<mode, settings, chain, chain_price, thresholds, candidates, reasons_log,
                   calls, result, input>>

SpecPrice == InitPrice /\ [][ResolvePrices]_vars


-----------------------------------------------------------------------------
(* strategy._calculate_score on notionals beyond the integers of the model: the
   notional is the power of ten 10^notional_exp, whose math.log10 is notional_exp *)

InitScore ==
    /\ mode = "score"
    /\ pc = "start"
    /\ settings = BaseSettings
    /\ chain = << >>
    /\ chain_price = None
    /\ thresholds = None
    /\ candidates = << >>
    /\ reasons_log = << >>
    /\ calls = {}
    /\ result = << >>
    /\ input \in [notional_exp : {5, 6, 20, 89, 90, 300},
                   ratio : {F(1), Rat(5, 2), F(10), F(25)},
                   dte_days : {1, 5, 30},
                   max_dte : {30, 60}]
    /\ output = None

ComputeScore ==
    /\ mode = "score"
    /\ pc = "start"
    /\ output' = Some(ScoreSum(F(input.notional_exp), input.ratio, input.dte_days,
                               input.max_dte))
    /\ pc' = "done"
    /\ UNCHANGED <<mode, settings, chain, chain_price, thresholds, candidates, reasons_log,
                   calls, result, input>>

SpecScore == InitScore /\ [][ComputeScore]_vars


-----------------------------------------------------------------------------
(* one scan cycle of _scan_once over the ticker universe and the sinks *)

\* longest ticker universe of a cycle
MaxTickers == 2

RECURSIVE ScanEvaluate(_, _, _)
\* the contract loop (lines 209-316) over contracts[i..]: the candidates appended,
\* or raised when the construction of a candidate fails
ScanEvaluate(contracts, s, i) ==
    IF i > Len(contracts) THEN [raised |-> FALSE, candidates |-> << >>]
    ELSE IF ScanSkipped(contracts[i], s) THEN ScanEvaluate(contracts, s, i + 1)
    ELSE IF ScanCandidateInvalid(contracts[i]) THEN [raised |-> TRUE, candidates |-> << >>]
    ELSE LET rest == ScanEvaluate(contracts, s, i + 1)
         IN  [raised |-> rest.raised,
              candidates |-> <<ScanCandidate(contracts[i], i)>> \o rest.candidates]

\* the snapshots a fetch may return: snapshot_resp.results
CycleSnapshots ==
    {<< >>,
     <<BaseScanContract>>,
     <<BaseScanContract, Merge(BaseScanContract, ScanDetails([contract_type |-> Some("PUT")]))>>,
     <<Merge(BaseScanContract, [day |-> Some([volume |-> Some(5), open_interest |-> Some(200),
                                              close |-> None])]),
       BaseScanContract>>,
     <<Merge(BaseScanContract, ScanDetails([ticker |-> None]))>>}

\* where the loop over tickers goes after the fetch (lines 183-195): an exception
\* or a None snapshot is logged and the loop continues with the next ticker
AfterFetch(outcome) == "fetch"

\* a loop over sinks that lets the exception of a send escape
AfterSend_Propagate(outcome) == IF outcome = "failed" THEN "raised" ELSE "deliver"

\* where the loop over sinks goes after sink.send (lines 330-339): an exception
\* is logged and the loop continues
AfterSend(outcome) == "deliver"

InitCycle ==
    /\ mode = "cycle"
    /\ pc = "fetch"
    /\ settings = BaseSettings
    /\ chain = << >>
    /\ chain_price = None
    /\ thresholds = None
    /\ candidates = << >>
    /\ reasons_log = << >>
    /\ calls = {}
    /\ result = << >>
    /\ input \in [tickers : 0..MaxTickers, sinks : {1, 2}]
    /\ output = << >>

\* lines 182-195: the fetch fails with an exception or returns None
CycleFetchFails ==
    /\ mode = "cycle"
    /\ pc = "fetch"
    /\ Len(chain) < input.tickers
    /\ \E outcome \in {"exception", "none"} :
        /\ chain' = Append(chain, [fetch |-> outcome, contracts |-> << >>])
        /\ pc' = AfterFetch(outcome)
    /\ candidates' = << >>
    /\ result' = Append(result, << >>)
    /\ output' = Append(output, << >>)
    /\ UNCHANGED <<mode, settings, chain_price, thresholds, reasons_log, calls, input>>

\* lines 182-321: a snapshot is returned and its contracts are evaluated
CycleFetchEvaluates ==
    /\ mode = "cycle"
    /\ pc = "fetch"
    /\ Len(chain) < input.tickers
    /\ \E contracts \in CycleSnapshots :
        LET ev == ScanEvaluate(contracts, settings, 1)
        IN  /\ chain' = Append(chain, [fetch |-> "snapshot", contracts |-> contracts])
            /\ candidates' = ev.candidates
            /\ result' = Append(result, ev.candidates)
            /\ pc' = IF ev.raised THEN "raised"
                     ELSE IF ev.candidates = << >> THEN "fetch" ELSE "deliver"
    /\ output' = Append(output, << >>)
    /\ UNCHANGED <<mode, settings, chain_price, thresholds, reasons_log, calls, input>>

\* lines 323-339: the next candidate is sent to the next sink
CycleSend ==
    /\ mode = "cycle"
    /\ pc = "deliver"
    /\ LET t == Len(chain)
           d == Len(output[t])
       IN  /\ d < Len(candidates) * input.sinks
           /\ \E outcome \in {"sent", "failed"} :
               /\ output' = [output EXCEPT ![t] =
                                 Append(@, [candidate |-> (d \div input.sinks) + 1,
                                            sink |-> (d % input.sinks) + 1,
                                            outcome |-> outcome])]
               /\ pc' = AfterSend(outcome)
    /\ UNCHANGED <<mode, settings, chain, chain_price, thresholds, candidates, reasons_log,
                   calls, result, input>>

\* lines 341-348: all candidates of the ticker were sent; next ticker
CycleNextTicker ==
    /\ mode = "cycle"
    /\ pc = "deliver"
    /\ Len(output[Len(chain)]) = Len(candidates) * input.sinks
    /\ pc' = "fetch"
    /\ UNCHANGED <<mode, settings, chain, chain_price, thresholds, candidates, reasons_log,
                   calls, result, input, output>>

\* lines 166-169 and the end of the loop over tickers
CycleReturn ==
    /\ mode = "cycle"
    /\ pc = "fetch"
    /\ Len(chain) = input.tickers
    /\ pc' = "done"
    /\ UNCHANGED <<mode, settings, chain, chain_price, thresholds, candidates, reasons_log,
                   calls, result, input, output>>

NextCycle == CycleFetchFails \/ CycleFetchEvaluates \/ CycleSend \/ CycleNextTicker \/ CycleReturn

SpecCycle == InitCycle /\ [][NextCycle]_vars


-----------------------------------------------------------------------------
(* worker.py: main, from the installation of the signal handlers (lines 380-404).
   `output` holds the flag `stopped` and the counts of scan cycles started, of
   cycles started when the flag was set, and of client.close() calls; `chain` is
   the tickers of the cycle in progress, `result` the cycles that returned *)

MaxCycles == 2

InitMain ==
    /\ mode = "main"
    /\ pc = "while"
    /\ settings = BaseSettings
    /\ chain = << >>
    /\ chain_price = None
    /\ thresholds = None
    /\ candidates = << >>
    /\ reasons_log = << >>
    /\ calls = {}
    /\ result = << >>
    /\ input \in [tickers : 0..MaxTickers]
    /\ output = [stopped |-> FALSE, cycles |-> 0, cycles_at_stop |-> 0, closes |-> 0]

\* _handle_signal (lines 383-386) runs between two steps of the main thread
MainSignal ==
    /\ mode = "main"
    /\ pc \notin {"exit", "crashed"}
    /\ ~output.stopped
    /\ output' = [output EXCEPT !.stopped = TRUE, !.cycles_at_stop = output.cycles]
    /\ UNCHANGED <<mode, pc, settings, chain, chain_price, thresholds, candidates,
                   reasons_log, calls, result, input>>

\* `while not stopped:` (line 392) and the call of _scan_once (line 394)
MainWhile ==
    /\ mode = "main"
    /\ pc = "while"
    /\ IF output.stopped
       THEN pc' = "close" /\ UNCHANGED <<chain, output>>
       ELSE /\ output.cycles < MaxCycles
            /\ pc' = "fetch"
            /\ chain' = << >>
            /\ output' = [output EXCEPT !.cycles = @ + 1]
    /\ UNCHANGED <<mode, settings, chain_price, thresholds, candidates, reasons_log,
                   calls, result, input>>

\* _scan_once, lines 182-206: the snapshot of the next ticker is fetched
MainFetch ==
    /\ mode = "main"
    /\ pc = "fetch"
    /\ Len(chain) < input.tickers
    /\ \/ \E outcome \in {"exception", "none"} :
            /\ chain' = Append(chain, [fetch |-> outcome, contracts |-> << >>])
            /\ pc' = AfterFetch(outcome)
       \/ \E contracts \in CycleSnapshots :
            /\ chain' = Append(chain, [fetch |-> "snapshot", contracts |-> contracts])
            /\ pc' = "evaluate"
    /\ UNCHANGED <<mode, settings, chain_price, thresholds, candidates, reasons_log,
                   calls, result, input, output>>

\* _scan_once, lines 208-348: the contracts of the snapshot are evaluated and the
\* candidates sent; an exception of the contract loop leaves _scan_once and main
MainEvaluate ==
    /\ mode = "main"
    /\ pc = "evaluate"
    /\ LET ev == ScanEvaluate(chain[Len(chain)].contracts, settings, 1)
       IN  /\ candidates' = ev.candidates
           /\ pc' = IF ev.raised THEN "crashed" ELSE "fetch"
    /\ UNCHANGED <<mode, settings, chain, chain_price, thresholds, reasons_log, calls,
                   result, input, output>>

\* _scan_once returns (lines 166-169 and the end of the loop over tickers)
MainScanReturns ==
    /\ mode = "main"
    /\ pc = "fetch"
    /\ Len(chain) = input.tickers
    /\ result' = Append(result, Len(chain))
    /\ pc' = "sleep"
    /\ UNCHANGED <<mode, settings, chain, chain_price, thresholds, candidates, reasons_log,
                   calls, input, output>>

\* lines 395-401: the rest of the scan interval is slept
MainSleep ==
    /\ mode = "main"
    /\ pc = "sleep"
    /\ pc' = "while"
    /\ UNCHANGED <<mode, settings, chain, chain_price, thresholds, candidates, reasons_log,
                   calls, result, input, output>>

\* lines 403-404: client.close() and the end of main
MainClose ==
    /\ mode = "main"
    /\ pc = "close"
    /\ output' = [output EXCEPT !.closes = @ + 1]
    /\ pc' = "exit"
    /\ UNCHANGED <<mode, settings, chain, chain_price, thresholds, candidates, reasons_log,
                   calls, result, input>>

NextMain ==
    MainSignal \/ MainWhile \/ MainFetch \/ MainEvaluate \/ MainScanReturns \/ MainSleep
        \/ MainClose

SpecMain == InitMain /\ [][NextMain]_vars

-----------------------------------------------------------------------------
(* massive_client.py: MassiveClient.get_option_chain_snapshot and the retried
   helper _get.  `chain` is the log of the attempts of _get, `output` what _get
   gave back to its caller, `result` the value get_option_chain_snapshot returns.
   A response body is <<"invalid_json">>, <<"null">> or a pair <<type, shape>>, the
   shape of an object telling what its "results" hold *)

\* stop=stop_after_attempt(3) (line 69)
stop_after_attempt == 3

Statuses == {200, 404, 500}

Bodies ==
    {<<"invalid_json">>, <<"null">>, <<"list", "any">>,
     <<"dict", "no_keys">>,        \* {}
     <<"dict", "no_results">>,     \* an object without results, data, snapshot, contracts
     <<"dict", "empty">>,          \* {"results": []}
     <<"dict", "mappings">>,       \* {"results": [{"contracts": [{...}]}]}
     <<"dict", "bad_mappings">>,   \* {"results": [{"contracts": 5}]}
     <<"dict", "scalars">>}        \* {"results": ["x"]}

\* what one attempt of _get does with a response (lines 89-117)
GetOutcome(status, body) ==
    IF status = 404 THEN [kind |-> "returned", data |-> <<"dict", "no_keys">>]
    ELSE IF status >= 400 THEN [kind |-> "raised", exc |-> "MassiveAPIError"]
    ELSE IF body \in {<<"invalid_json">>, <<"null">>} THEN [kind |-> "returned", data |-> None]
    ELSE [kind |-> "returned", data |-> body]

\* retry=retry_if_exception_type(httpx.RequestError) (line 67)
Retried(exc) == exc = "RequestError"

\* the debug logging of the payload (lines 165-193) raises AttributeError:
\* raw_results[0].get(...) on a first element that is no mapping
DebugLogRaises(s, data) ==
    /\ s.debug_mode
    /\ s.watched
    /\ data[1] = "dict"
    /\ data[2] = "scalars"

\* OptionChainSnapshotResponse.parse_obj(data) succeeds (line 196; models.py lines 233-271)
Parses(data) == data[1] = "dict" /\ data[2] \in {"no_keys", "no_results", "empty", "mappings"}

InitClient ==
    /\ mode = "client"
    /\ pc = "request"
    /\ settings = BaseSettings
    /\ chain = << >>
    /\ chain_price = None
    /\ thresholds = None
    /\ candidates = << >>
    /\ reasons_log = << >>
    /\ calls = {}
    /\ result = None
    /\ input \in [debug_mode : BOOLEAN, watched : BOOLEAN]
    /\ output = None

\* lines 83-87: the request fails at the network level; tenacity tries again
\* until the third attempt, then re-raises the error (reraise=True)
ClientRequestError ==
    /\ mode = "client"
    /\ pc = "request"
    /\ chain' = Append(chain, [error |-> TRUE, status |-> 0, body |-> None])
    /\ IF Retried("RequestError") /\ Len(chain) + 1 < stop_after_attempt
       THEN UNCHANGED <<pc, output>>
       ELSE /\ pc' = "handle"
            /\ output' = [kind |-> "raised", exc |-> "RequestError"]
    /\ UNCHANGED <<mode, settings, chain_price, thresholds, candidates, reasons_log,
                   calls, result, input>>

\* lines 84-117: a response arrives
ClientResponse ==
    /\ mode = "client"
    /\ pc = "request"
    /\ \E status \in Statuses, body \in Bodies :
        /\ chain' = Append(chain, [error |-> FALSE, status |-> status, body |-> body])
        /\ output' = GetOutcome(status, body)
        /\ pc' = IF GetOutcome(status, body).kind = "raised"
                      /\ Retried(GetOutcome(status, body).exc)
                      /\ Len(chain) + 1 < stop_after_attempt
                 THEN "request" ELSE "handle"
    /\ UNCHANGED <<mode, settings, chain_price, thresholds, candidates, reasons_log,
                   calls, result, input>>

\* get_option_chain_snapshot, lines 144-215, with the outcome of _get
ClientHandle ==
    /\ mode = "client"
    /\ pc = "handle"
    /\ IF output.kind = "raised"
       THEN /\ output.exc \in {"RequestError", "RetryError", "MassiveAPIError"}
            /\ result' = None
            /\ pc' = "done"
       ELSE IF output.data = <<"dict", "no_keys">> \/ output.data = None
       THEN result' = None /\ pc' = "done"
       ELSE IF DebugLogRaises(input, output.data)
       THEN result' = None /\ pc' = "raised"
       ELSE IF ~Parses(output.data)
       THEN result' = None /\ pc' = "done"
       ELSE result' = Some(output.data) /\ pc' = "done"
    /\ UNCHANGED <<mode, settings, chain, chain_price, thresholds, candidates, reasons_log,
                   calls, input, output>>

NextClient == ClientRequestError \/ ClientResponse \/ ClientHandle

SpecClient == InitClient /\ [][NextClient]_vars

-----------------------------------------------------------------------------
(* models.py: OptionContractSnapshot.normalize_fields; a raw record is a mapping
   from keys to values, a nested key "a.b" standing for values["a"]["b"], and a
   value is a pair <<type, payload>> *)

\* the fields of OptionContractSnapshot (lines 33-50)
CanonicalFields ==
    {"options_ticker", "underlying_ticker", "expiration_date", "strike",
     "contract_type", "last_price", "bid", "ask", "volume", "open_interest",
     "sweep", "trade_count", "trade_size", "notional", "rvol",
     "iv_percentile", "unusual_score", "underlying_price"}

\* an alias table in which trade_size also reads the canonical key of volume
Aliases_Crossed(f) ==
    CASE f = "volume" -> <<"volume", "vol", "day.volume">>
      [] f = "trade_size" -> <<"trade_size", "size", "day.trade_size", "volume">>
      [] OTHER -> <<f>>

\* the keys _first(...) is given for each field (lines 65-190)
Aliases(f) ==
    CASE f = "options_ticker" -> <<"symbol", "ticker", "options_ticker", "contract_symbol", "details.symbol", "option.symbol">>
      [] f = "underlying_ticker" -> <<"underlying_symbol", "underlying_ticker", "underlying.symbol", "underlying.ticker", "underlying_asset.symbol">>
      [] f = "expiration_date" -> <<"expiration", "expiration_date", "exp_date", "expiry", "details.expiration_date", "details.expiration", "contract.expiration_date">>
      [] f = "strike" -> <<"strike", "strike_price", "details.strike_price", "contract.strike_price">>
      [] f = "last_price" -> <<"last", "last_price", "last_trade_price", "mark", "mid", "quote.last", "quote.last_price", "day.last">>
      [] f = "bid" -> <<"bid", "bid_price", "best_bid", "quote.bid", "quote.bid_price">>
      [] f = "ask" -> <<"ask", "ask_price", "best_ask", "quote.ask", "quote.ask_price">>
      [] f = "contract_type" -> <<"contract_type", "option_type", "type", "right", "details.contract_type", "details.type", "contract.type">>
      [] f = "open_interest" -> <<"oi", "open_interest", "openInterest", "day.open_interest">>
      [] f = "volume" -> <<"volume", "vol", "day.volume">>
      [] f = "sweep" -> <<"sweep", "is_sweep", "isSweep">>
      [] f = "trade_count" -> <<"trade_count", "trades", "day.trades">>
      [] f = "trade_size" -> <<"trade_size", "size", "day.trade_size">>
      [] f = "notional" -> <<"notional", "premium", "trade_value", "day.notional">>
      [] f = "rvol" -> <<"rvol", "relative_volume", "day.rvol">>
      [] f = "iv_percentile" -> <<"iv_percentile", "iv_pctile", "ivRank", "iv_percentile_52w">>
      [] f = "unusual_score" -> <<"unusual_score", "score">>
      [] f = "underlying_price" -> <<"underlying_price", "underlying.price", "underlying.last">>

RawKeys == CanonicalFields \cup UNION {Range(Aliases(f)) : f \in CanonicalFields}

\* key.split(".") (line 13)
Parts(key) ==
    CASE key = "contract.expiration_date" -> <<"contract", "expiration_date">>
      [] key = "contract.strike_price" -> <<"contract", "strike_price">>
      [] key = "contract.type" -> <<"contract", "type">>
      [] key = "day.last" -> <<"day", "last">>
      [] key = "day.notional" -> <<"day", "notional">>
      [] key = "day.open_interest" -> <<"day", "open_interest">>
      [] key = "day.rvol" -> <<"day", "rvol">>
      [] key = "day.trade_size" -> <<"day", "trade_size">>
      [] key = "day.trades" -> <<"day", "trades">>
      [] key = "day.volume" -> <<"day", "volume">>
      [] key = "details.contract_type" -> <<"details", "contract_type">>
      [] key = "details.expiration" -> <<"details", "expiration">>
      [] key = "details.expiration_date" -> <<"details", "expiration_date">>
      [] key = "details.strike_price" -> <<"details", "strike_price">>
      [] key = "details.symbol" -> <<"details", "symbol">>
      [] key = "details.type" -> <<"details", "type">>
      [] key = "option.symbol" -> <<"option", "symbol">>
      [] key = "quote.ask" -> <<"quote", "ask">>
      [] key = "quote.ask_price" -> <<"quote", "ask_price">>
      [] key = "quote.bid" -> <<"quote", "bid">>
      [] key = "quote.bid_price" -> <<"quote", "bid_price">>
      [] key = "quote.last" -> <<"quote", "last">>
      [] key = "quote.last_price" -> <<"quote", "last_price">>
      [] key = "underlying.last" -> <<"underlying", "last">>
      [] key = "underlying.price" -> <<"underlying", "price">>
      [] key = "underlying.symbol" -> <<"underlying", "symbol">>
      [] key = "underlying.ticker" -> <<"underlying", "ticker">>
      [] key = "underlying_asset.symbol" -> <<"underlying_asset", "symbol">>
      [] OTHER -> <<key>>

\* the keys of the raw mapping itself: plain keys and the first part of dotted ones
TopKeys == {Parts(k)[1] : k \in RawKeys}

\* the declared type of each field (lines 33-50)
FieldType(f) ==
    CASE f \in {"options_ticker", "underlying_ticker", "contract_type"} -> "str"
      [] f \in {"expiration_date"} -> "date"
      [] f \in {"strike", "last_price", "bid", "ask", "notional", "rvol",
                "iv_percentile", "unusual_score", "underlying_price"} -> "float"
      [] f \in {"volume", "open_interest", "trade_count", "trade_size"} -> "int"
      [] f \in {"sweep"} -> "bool"

\* isinstance(v, dict) (line 14): a mapping is <<"dict", m>>, m a function on its keys
IsMapping(v) == Len(v) = 2 /\ v[1] = "dict"

\* m.get(key): None for a key the mapping lacks
Get(m, key) == IF key \in DOMAIN m THEN m[key] ELSE None

\* _get_nested (lines 9-17); every dotted key of the module has two parts
_get_nested(values, key) ==
    IF Len(Parts(key)) = 1 THEN Get(values, key)
    ELSE LET current == Get(values, Parts(key)[1])
         IN  IF ~IsMapping(current) THEN None ELSE Get(current[2], Parts(key)[2])

\* _first that lets a later key override an earlier one
_first_LastWins(values, keys, i) ==
    LET hits == {j \in i..Len(keys) : ~IsNone(_get_nested(values, keys[j]))}
    IN  IF hits = {} THEN None
        ELSE _get_nested(values, keys[CHOOSE j \in hits : \A h \in hits : h <= j])

RECURSIVE _first(_, _, _)
\* _first(*keys) (lines 57-62), for keys[i..]
_first(values, keys, i) ==
    IF i > Len(keys) THEN None
    ELSE IF ~IsNone(_get_nested(values, keys[i])) THEN _get_nested(values, keys[i])
    ELSE _first(values, keys, i + 1)

\* the root validator (lines 52-192): the mapping with each canonical key filled
normalize_fields(values) ==
    [k \in TopKeys |->
        IF k \in CanonicalFields /\ IsNone(values[k]) THEN _first(values, Aliases(k), 1)
        ELSE values[k]]

\* field validation after the root validator: a value is turned into the declared
\* type of its field; a mapping fits no field, and a bool field takes the
\* payloads 0 and 1 only
CoerceFails(f, v) ==
    /\ ~IsNone(v)
    /\ \/ IsMapping(v)
       \/ FieldType(f) = "bool" /\ v[2] \notin {0, 1}

Coerce(f, v) == IF IsNone(v) THEN None ELSE <<FieldType(f), v[2]>>

\* OptionContractSnapshot.parse_obj(values): the contract, or None when
\* validation fails; keys that are not fields are ignored (lines 194-195)
ParseContract(values) ==
    LET normalized == normalize_fields(values)
    IN  IF \E f \in CanonicalFields : CoerceFails(f, normalized[f]) THEN None
        ELSE Some([f \in CanonicalFields |-> Coerce(f, normalized[f])])

\* contract.dict(): the canonical field values as a mapping
AsMapping(contract) ==
    [k \in TopKeys |-> IF k \in CanonicalFields THEN contract[k] ELSE None]

EmptyMapping == <<"dict", << >>>>

\* the values written first and second
FirstValues == {None, <<"num", 1>>, EmptyMapping}

RawValues == {<<"num", 2>>, <<"str", 2>>}

EmptyRecord == [k \in TopKeys |-> None]

\* the raw mapping rec with value v stored under key, inside the nested mapping
\* for a dotted key
Put(rec, key, v) ==
    IF Len(Parts(key)) = 1 THEN [rec EXCEPT ![key] = v]
    ELSE LET old == rec[Parts(key)[1]]
             inner == IF IsMapping(old) THEN old[2] ELSE << >>
         IN  [rec EXCEPT ![Parts(key)[1]] = <<"dict", (Parts(key)[2] :> v) @@ inner>>]

\* raw records with at most two keys written, canonical, alias or nested, the
\* second written over the first
RawRecords ==
    {Put(Put(EmptyRecord, k1, v1), k2, v2) :
        k1 \in RawKeys \cup TopKeys, k2 \in RawKeys \cup TopKeys,
        v1 \in FirstValues, v2 \in RawValues}

InitNormalize ==
    /\ mode = "normalize"
    /\ pc = "start"
    /\ settings = BaseSettings
    /\ chain = << >>
    /\ chain_price = None
    /\ thresholds = None
    /\ candidates = << >>
    /\ reasons_log = << >>
    /\ calls = {}
    /\ result = << >>
    /\ input \in RawRecords
    /\ output = None

\* the raw record is parsed
NormalizeRaw ==
    /\ mode = "normalize"
    /\ pc = "start"
    /\ result' = ParseContract(input)
    /\ pc' = IF IsNone(ParseContract(input)) THEN "invalid" ELSE "normalized"
    /\ UNCHANGED <<mode, settings, chain, chain_price, thresholds, candidates, reasons_log,
                   calls, input, output>>

\* the canonical field values of the contract are parsed again
NormalizeCanonical ==
    /\ mode = "normalize"
    /\ pc = "normalized"
    /\ output' = ParseContract(AsMapping(Val(result)))
    /\ pc' = "done"
    /\ UNCHANGED <<mode, settings, chain, chain_price, thresholds, candidates, reasons_log,
                   calls, result, input>>

SpecNormalize == InitNormalize /\ [][NormalizeRaw \/ NormalizeCanonical]_vars


-----------------------------------------------------------------------------
(* Claims *)


\* candidates appended so far or returned / handed to the sinks
Emitted == Range(candidates) \cup Range(result)

\* the contract's days to expiration, where the pipeline computes one
HasDte(i) ==
    IF mode \in FindModes THEN ~MissingExpiryOrType(chain[i])
    ELSE /\ ~IsNone(_parse_expiration(chain[i].details.expiration_date))
         /\ ~IsNone(chain[i].details.contract_type)
         /\ Val(chain[i].details.contract_type) # ""

DteOf(i) ==
    IF mode \in FindModes THEN Val(chain[i].expiration_date) - Today
    ELSE chain[i].details.expiration_date[1][2] - Today

\* the thresholds in force: find_unusual_activity filters on the effective
\* thresholds, _scan_once on the settings
InForce == _get_effective_thresholds(settings)

DteOutOfRange(i) ==
    HasDte(i) /\ (DteOf(i) < InForce.min_dte_days \/ DteOf(i) > InForce.max_dte_days)

\* C1 as stated: a contract whose DTE is outside [min_dte_days, max_dte_days] of the
\* effective thresholds is rejected with reason "dte" (where reasons are recorded)
\* and is not among the emitted candidates, in normal and in debug mode.
C1_Original ==
    (mode \in FindModes \cup ScanModes) =>
        \A i \in 1..Len(chain) :
            DteOutOfRange(i) =>
                /\ mode \in FindModes => "dte" \in Range(reasons_log[i])
                /\ \A cand \in Emitted : cand.src # i

\* C1 (amended): a contract whose DTE is outside the range in force is rejected with
\* reason "dte" by find_unusual_activity and dropped by _scan_once, and no STANDARD
\* or SWEEP candidate is emitted for it; the debug fallback may still emit it with
\* flow_type DEBUG.
C1_DteRejected ==
    (mode \in FindModes \cup ScanModes) =>
        \A i \in 1..Len(chain) :
            DteOutOfRange(i) =>
                /\ mode \in FindModes => "dte" \in Range(reasons_log[i])
                /\ \A cand \in Emitted : cand.src = i => cand.flow_type = "DEBUG"
                /\ mode \in ScanModes => \A cand \in Emitted : cand.src # i

\* a chain is done in which an otherwise acceptable contract was rejected for its DTE
\* alone while another contract was emitted
C1_Witness ==
    /\ mode \in FindModes
    /\ pc = "done"
    /\ \E i \in 1..Len(chain) : DteOutOfRange(i) /\ reasons_log[i] = <<"dte">>
    /\ \E cand \in Range(result) : cand.flow_type # "DEBUG"


PipelineMode == mode \in FindModes \cup ScanModes

Done == PipelineMode /\ pc = "done"

\* the contract a candidate was built from
Source(cand) == chain[cand.src]

\* C2 as stated: every emitted candidate whose contract carries sweep = true has
\* is_sweep = true, on the normal path, in the debug fallback and in _scan_once.
C2_Original ==
    Done => \A cand \in Range(result) : Source(cand).sweep = Some(TRUE) => cand.is_sweep

\* C3 as stated: no bound of the debug thresholds is more restrictive than the
\* production bound: lower bounds are <=, upper bounds are >=.
C3_Original ==
    (mode = "thresholds" /\ thresholds # None /\ result # None) =>
        /\ result.min_dte_days <= thresholds.min_dte_days
        /\ result.min_notional <= thresholds.min_notional
        /\ result.min_volume <= thresholds.min_volume
        /\ result.min_open_interest <= thresholds.min_open_interest
        /\ result.min_volume_oi_ratio <= thresholds.min_volume_oi_ratio
        /\ result.min_trade_count <= thresholds.min_trade_count
        /\ result.min_trade_size <= thresholds.min_trade_size
        /\ result.min_rvol <= thresholds.min_rvol
        /\ result.min_iv_pctile <= thresholds.min_iv_pctile
        /\ result.min_unusual_score <= thresholds.min_unusual_score
        /\ result.max_dte_days >= thresholds.max_dte_days
        /\ result.max_otm_pct >= thresholds.max_otm_pct
        /\ result.spread_threshold_bps >= thresholds.spread_threshold_bps

\* C4 as stated: the candidates returned or handed to the sinks are sorted by score
\* descending, and candidates of equal score keep their input order.
C4_Original ==
    Done =>
        \A j, k \in 1..Len(result) :
            j < k =>
                /\ RGe(result[j].score, result[k].score)
                /\ result[j].score = result[k].score => result[j].src < result[k].src

NoExpiration(i) ==
    IF mode \in FindModes THEN IsNone(chain[i].expiration_date)
    ELSE IsNone(_parse_expiration(chain[i].details.expiration_date))

NeverScoredOrEmitted(i) ==
    /\ \A call \in calls : call[2] # i
    /\ \A cand \in Emitted : cand.src # i

\* C5 as stated: a contract with no expiration_date is rejected with reason
\* "missing_expiry" and is never scored, sweep-classified or emitted.
C5_Original ==
    PipelineMode =>
        \A i \in 1..Len(chain) :
            NoExpiration(i) =>
                /\ mode \in FindModes => reasons_log[i] = <<"missing_expiry">>
                /\ NeverScoredOrEmitted(i)

\* C5 (amended): a contract with no expiration_date is rejected, the one reason
\* recorded by find_unusual_activity being "missing_expiry_or_type", and neither
\* score computation nor the sweep classification is invoked for it, nor is it
\* emitted, the debug fallback included.
C5_MissingExpiry ==
    PipelineMode =>
        \A i \in 1..Len(chain) :
            NoExpiration(i) =>
                /\ mode \in FindModes => reasons_log[i] = <<"missing_expiry_or_type">>
                /\ NeverScoredOrEmitted(i)

\* the debug fallback has run over a chain holding a contract without expiration
\* and has emitted another contract of it
C5_Witness ==
    /\ mode \in FindModes
    /\ pc = "done"
    /\ \E i \in 1..Len(chain) : NoExpiration(i)
    /\ \E cand \in Range(result) : cand.flow_type = "DEBUG"

\* the place of a recorded reason in the order the claim gives (0: not in its list)
ClaimedRank(r) ==
    CASE r = "missing_expiry_or_type" -> 1
      [] r = "dte" -> 2
      [] r = "volume" -> 3
      [] r = "open_interest" -> 4
      [] r = "trade_count" -> 5
      [] r = "trade_size" -> 6
      [] r = "price" -> 7
      [] r = "notional" -> 8
      [] r = "volume_oi_ratio" -> 9
      [] r = "rvol" -> 10
      [] r = "otm_pct" -> 11
      [] r = "spread_bps" -> 12
      [] r = "unusual_score" -> 13
      [] OTHER -> 0

\* C6 as stated: the reasons recorded for a contract appear in the order missing
\* expiration/type, DTE, volume, open interest, trade_count, trade_size, price,
\* notional, ratio, relative volume, OTM percentage, spread, score below floor.
C6_Original ==
    mode \in FindModes =>
        \A i \in 1..Len(reasons_log) :
            \A a, b \in 1..Len(reasons_log[i]) :
                (a < b /\ ClaimedRank(reasons_log[i][a]) # 0 /\ ClaimedRank(reasons_log[i][b]) # 0)
                    => ClaimedRank(reasons_log[i][a]) < ClaimedRank(reasons_log[i][b])

\* C7 as stated: no candidate is emitted with a composite score below the minimum
\* score in force.
C7_Original ==
    Done => \A cand \in Range(result) : RGe(cand.score, F(InForce.min_unusual_score))


\* condition (a) of the claim: volume >= 5 x open_interest when open_interest > 0,
\* otherwise ratio >= 3.0
ClaimedAggressive(c, ratio) ==
    IF OrZero(c.open_interest) > 0 THEN OrZero(c.volume) >= 5 * OrZero(c.open_interest)
    ELSE RGe(ratio, F(3))

\* condition (c) of the claim: the resolved last price is >= the mid price, satisfied
\* when the mid price cannot be computed
ClaimedPriceOk(c) ==
    \/ IsNone(_calculate_mid_price(c))
    \/ /\ ~IsNone(ResolvePrice(c))
       /\ RGe(Val(ResolvePrice(c)), Val(_calculate_mid_price(c)))

C9_NoSweepBelowTwiceMinNotional ==
    PipelineMode =>
        \A cand \in Emitted :
            (Source(cand).sweep # Some(TRUE) /\ RLt(cand.notional, F(2 * InForce.min_notional)))
                => ~cand.is_sweep /\ cand.flow_type # "SWEEP"

\* a returned candidate with volume >= 5 x open_interest and last price at the mid,
\* kept from the sweep class by its notional alone
C9_Witness ==
    /\ mode \in FindModes
    /\ pc = "done"
    /\ \E cand \in Range(result) :
        /\ cand.flow_type = "STANDARD"
        /\ Source(cand).sweep # Some(TRUE)
        /\ OrZero(Source(cand).open_interest) > 0
        /\ OrZero(Source(cand).volume) >= 5 * OrZero(Source(cand).open_interest)
        /\ RLt(cand.notional, F(2 * InForce.min_notional))

\* volume and open interest as the pipeline resolves them for contract i
VolumeOf(i) == IF mode \in FindModes THEN OrZero(chain[i].volume) ELSE ScanVolume(chain[i])

OpenInterestOf(i) ==
    IF mode \in FindModes THEN OrZero(chain[i].open_interest)
    ELSE OrZero(ScanOpenInterest(chain[i]))

\* C10: every candidate built from a contract with open_interest > 0 carries the
\* ratio volume / open_interest exactly, and that ratio is >= the
\* min_volume_oi_ratio in force; a contract with open_interest > 0 that reaches the
\* ratio filter with a ratio below the floor is never emitted, and
\* find_unusual_activity records "volume_oi_ratio" for it.
C10_RatioExactAndFloored ==
    PipelineMode =>
        /\ \A cand \in Emitted :
            OpenInterestOf(cand.src) > 0 =>
                /\ cand.volume_oi_ratio = Some(Rat(VolumeOf(cand.src), OpenInterestOf(cand.src)))
                /\ RGe(Val(cand.volume_oi_ratio), F(InForce.min_volume_oi_ratio))
        /\ \A i \in 1..Len(chain) :
            (/\ HasDte(i)
             /\ OpenInterestOf(i) > 0
             /\ VolumeOf(i) < InForce.min_volume_oi_ratio * OpenInterestOf(i))
                => /\ \A cand \in Emitted : cand.src # i
                   /\ mode \in FindModes => "volume_oi_ratio" \in Range(reasons_log[i])

\* a chain was returned with one contract emitted at a fractional ratio and another
\* rejected for its ratio alone
C10_Witness ==
    /\ mode \in FindModes
    /\ pc = "done"
    /\ \E cand \in Range(result) :
        /\ OpenInterestOf(cand.src) > 0
        /\ cand.volume_oi_ratio = Some(Rat(10, 3))
    /\ \E i \in 1..Len(chain) : OpenInterestOf(i) > 0 /\ reasons_log[i] = <<"volume_oi_ratio">>


\* C11 as stated: for a contract whose open interest is zero or absent, the ratio
\* computed by strategy.py and by worker.py, the ratio worker.py scores with, and
\* the accept/reject outcome of the two ratio filters are the same.
C11_Original ==
    (mode = "ratio" /\ pc = "done" /\ OrZero(input.open_interest) = 0) =>
        /\ output.strategy_ratio = output.worker_ratio
        /\ output.worker_score_ratio = output.worker_ratio
        /\ output.strategy_rejected = output.worker_rejected


\* the price the pipeline resolved for contract i (strategy.py line 245, worker.py
\* line 215) and the contract multiplier it applies
PriceOf(i) ==
    IF mode \in FindModes THEN ResolvePrice(chain[i])
    ELSE _get_last_price(chain[i], _calculate_midpoint(chain[i]))

MultiplierOf(i) ==
    IF mode \in ScanModes /\ Truthy(chain[i].details.shares_per_contract)
    THEN Val(chain[i].details.shares_per_contract)
    ELSE 100

\* resolved price x resolved volume x multiplier, 0 when the price is unresolved
ProductNotional(i) ==
    IF IsNone(PriceOf(i)) THEN F(0)
    ELSE RMul(RMul(Val(PriceOf(i)), F(VolumeOf(i))), F(MultiplierOf(i)))

\* a positive precomputed notional on the record (read by find_unusual_activity only)
HasPrecomputedNotional(i) ==
    mode \in FindModes /\ ~IsNone(chain[i].notional) /\ Val(chain[i].notional) > 0

ClaimedPrice(rec) ==
    IF ~IsNone(rec.trade_price) THEN Some(F(Val(rec.trade_price)))
    ELSE IF ~IsNone(rec.last_price) THEN Some(F(Val(rec.last_price)))
    ELSE IF ~IsNone(rec.bid) /\ ~IsNone(rec.ask) THEN Some(Rat(Val(rec.bid) + Val(rec.ask), 2))
    ELSE IF ~IsNone(rec.day_close) THEN Some(F(Val(rec.day_close)))
    ELSE IF ~IsNone(rec.prev_close) THEN Some(F(Val(rec.prev_close)))
    ELSE None

\* C13 as stated: the resolved last price is the first available of trade price,
\* explicit last price, mid price, current-session close, previous-session close,
\* null only when none is available, and both pipelines that filter on price
\* (find_unusual_activity and _scan_once) resolve it this way.
C13_Original ==
    (mode = "price" /\ pc = "done") =>
        /\ output.worker = ClaimedPrice(input)
        /\ output.strategy = ClaimedPrice(input)


InScoreRange(score) == RGe(score, F(0)) /\ RLe(score, F(100))

\* C14 as stated: every candidate is emitted with a score in the range 0 to 100
\* inclusive; here for the score strategy._calculate_score gives a contract that
\* passes the production filters (notional >= 100,000, ratio >= 1, DTE in range).
C14_Original ==
    (mode = "score" /\ pc = "done") => InScoreRange(Val(output))


\* C15 as stated: every emitted candidate has notional >= 0, a numeric
\* volume_oi_ratio >= 0, a non-null expiration_date, a non-empty contract_type and
\* a non-null last_price.
C15_Original ==
    PipelineMode =>
        \A cand \in Emitted :
            /\ RGe(cand.notional, F(0))
            /\ ~IsNone(cand.volume_oi_ratio)
            /\ RGe(Val(cand.volume_oi_ratio), F(0))
            /\ ~IsNone(cand.expiration_date)
            /\ cand.contract_type # ""
            /\ ~IsNone(cand.last_price)


\* C16 as stated: evaluating a batch never raises because of a contract with
\* missing, partial or inconsistent data; every contract is rejected or emitted.
C16_Original == PipelineMode => pc # "raised"


\* ticker t of the cycle has been dealt with completely
TickerCompleted(t) == t < Len(chain) \/ pc \in {"fetch", "done"}

\* the sends logged for candidate ci of ticker t to sink si
Sends(t, ci, si) ==
    {d \in 1..Len(output[t]) : output[t][d].candidate = ci /\ output[t][d].sink = si}

\* C17: in a scan cycle a failed fetch (exception or None snapshot) and a failed
\* send are contained. The cycle is left by an exception only from the evaluation
\* of a snapshot's contracts, never from a fetch or a send; a cycle that returns
\* has fetched every ticker of the universe; every ticker whose snapshot was
\* returned had its contracts evaluated; and for every ticker dealt with, each of
\* its candidates was sent exactly once to each sink, whatever sends failed before.
C17_FailuresContained ==
    mode = "cycle" =>
        /\ pc = "raised" =>
            /\ chain[Len(chain)].fetch = "snapshot"
            /\ ScanEvaluate(chain[Len(chain)].contracts, settings, 1).raised
            /\ output[Len(chain)] = << >>
        /\ pc = "done" => Len(chain) = input.tickers
        /\ \A t \in 1..Len(chain) :
            /\ (chain[t].fetch = "snapshot" /\ (t < Len(chain) \/ pc # "raised")) =>
                   result[t] = ScanEvaluate(chain[t].contracts, settings, 1).candidates
            /\ chain[t].fetch # "snapshot" => result[t] = << >>
            /\ TickerCompleted(t) =>
                   \A ci \in 1..Len(result[t]) : \A si \in 1..input.sinks :
                       Cardinality(Sends(t, ci, si)) = 1

\* a cycle has returned in which the first ticker's fetch raised, the second
\* ticker gave two candidates, the first send failed, and the other sink and the
\* later candidate were still served
C17_Witness ==
    /\ mode = "cycle"
    /\ pc = "done"
    /\ input.sinks = 2
    /\ Len(chain) = 2
    /\ chain[1].fetch = "exception"
    /\ Len(result[2]) = 2
    /\ output[2][1].outcome = "failed"
    /\ output[2][2].outcome = "sent"
    /\ output[2][3].outcome = "sent"


\* the orders in which n contracts can be evaluated
Orders(n) == {f \in [1..n -> 1..n] : \A a, b \in 1..n : a # b => f[a] # f[b]}

\* the fields of a candidate, the position of its contract in the chain left out
Fields(cand) == [f \in DOMAIN cand \ {"src"} |-> cand[f]]

From(cands, i) == {k \in 1..Len(cands) : cands[k].src = i}

\* contract i cleared every predicate: it is in the list exactly once, and in the
\* returned list exactly once, labelled by its sweep classification
EmittedOnce(i) ==
    /\ Cardinality(From(candidates, i)) = 1
    /\ pc = "done" => Cardinality(From(result, i)) = 1
    /\ \A cand \in Emitted :
        cand.src = i => cand.flow_type = (IF cand.is_sweep THEN "SWEEP" ELSE "STANDARD")

NeverStandardOrSweep(i) ==
    \A cand \in Emitted : cand.src = i => cand.flow_type \notin {"STANDARD", "SWEEP"}

\* C19 as stated: a contract of a chain that clears all rejection predicates is
\* emitted exactly once, with flow_type SWEEP when is_sweep and STANDARD otherwise;
\* a contract with a recorded rejection reason is never scored, never
\* sweep-classified and never emitted as STANDARD or SWEEP.
C19_Original ==
    mode \in FindModes =>
        \A i \in 1..Len(chain) :
            IF reasons_log[i] = << >> THEN EmittedOnce(i)
            ELSE /\ \A call \in calls : call[2] # i
                 /\ NeverStandardOrSweep(i)

\* C19 (amended): a contract that clears all rejection predicates is emitted
\* exactly once, with flow_type SWEEP when is_sweep and STANDARD otherwise; a
\* contract with a recorded rejection reason is never sweep-classified and never
\* emitted as STANDARD or SWEEP, and it is scored only by the debug fallback, that
\* is on return, in debug mode, when no contract of the chain was accepted.
C19_AcceptedOnceRejectedNever ==
    mode \in FindModes =>
        \A i \in 1..Len(chain) :
            IF reasons_log[i] = << >> THEN EmittedOnce(i)
            ELSE /\ <<"_detect_sweep", i>> \notin calls
                 /\ NeverStandardOrSweep(i)
                 /\ <<"_calculate_score", i>> \in calls =>
                        pc = "done" /\ settings.debug_mode /\ candidates = << >>

\* a chain was returned with one contract emitted as SWEEP and another rejected
C19_Witness ==
    /\ mode \in FindModes
    /\ pc = "done"
    /\ \E cand \in Range(result) : cand.flow_type = "SWEEP" /\ reasons_log[cand.src] = << >>
    /\ \E i \in 1..Len(chain) : reasons_log[i] # << >>


\* C20: for every raw record that parses, canonical, alias and nested keys mixed,
\* parsing the canonical field values of the resulting contract gives a contract
\* identical to it.
C20_Idempotent ==
    (mode = "normalize" /\ pc = "done") => output = result

\* a record with a value under an alias key and a string in a numeric field was
\* parsed twice
C20_Witness ==
    /\ mode = "normalize"
    /\ pc = "done"
    /\ IsNone(input["volume"])
    /\ IsMapping(input["day"])
    /\ Get(input["day"][2], "volume") = <<"str", 2>>
    /\ input["vol"] = None
    /\ Val(result)["volume"] = <<"int", 2>>
    /\ ~IsNone(input["size"])

\* the source paths of field f in the order the normalizer consults them: the
\* canonical key itself (the `values.get(f) is None` guard), then the keys handed
\* to _first
CandidatePaths(f) == <<f>> \o Aliases(f)

\* the path is present and non-null in the raw record; a dotted path is present
\* only inside a mapping
PresentAt(rec, key) ==
    IF Len(Parts(key)) = 1 THEN rec[key] # None
    ELSE /\ rec[Parts(key)[1]] # None
         /\ rec[Parts(key)[1]][1] = "dict"
         /\ Parts(key)[2] \in DOMAIN rec[Parts(key)[1]][2]
         /\ rec[Parts(key)[1]][2][Parts(key)[2]] # None

ValueAt(rec, key) ==
    IF Len(Parts(key)) = 1 THEN rec[key] ELSE rec[Parts(key)[1]][2][Parts(key)[2]]

PresentPaths(rec, f) ==
    {i \in 1..Len(CandidatePaths(f)) : PresentAt(rec, CandidatePaths(f)[i])}

FirstPresent(rec, f) == CHOOSE i \in PresentPaths(rec, f) : \A j \in PresentPaths(rec, f) : i <= j

Parsed == mode = "normalize" /\ pc \in {"normalized", "done"}

\* C21: in every contract parsed from a raw record, each canonical field holds
\* the value (in the field's type) found at the first of its candidate paths that
\* is present and non-null in the record, whatever later paths hold (that value is
\* never a mapping, which fits no field), and is null when none is; a dotted path
\* whose first part is not a mapping counts as absent.
C21_FirstPresentWins ==
    Parsed =>
        \A f \in CanonicalFields :
            IF PresentPaths(input, f) = {} THEN Val(result)[f] = None
            ELSE LET first == ValueAt(input, CandidatePaths(f)[FirstPresent(input, f)])
                 IN  /\ first[1] # "dict"
                     /\ Val(result)[f] = Coerce(f, first)

\* a record holding two different values at two paths of one field, the later
\* one nested, was parsed
C21_Witness ==
    /\ Parsed
    /\ \E f \in CanonicalFields :
        \E i, j \in PresentPaths(input, f) :
            /\ i < j
            /\ Len(Parts(CandidatePaths(f)[j])) = 2
            /\ ValueAt(input, CandidatePaths(f)[i])[1] # "dict"
            /\ ValueAt(input, CandidatePaths(f)[j])[1] # "dict"
            /\ ValueAt(input, CandidatePaths(f)[i])[2] # ValueAt(input, CandidatePaths(f)[j])[2]
            /\ Val(result)[f] = Coerce(f, ValueAt(input, CandidatePaths(f)[i]))

\* C22 (as stated): a raw record parses into a contract whose unresolved fields
\* are null, and parsing fails only for a record none of whose ticker paths
\* resolves.
C22_Original ==
    /\ Parsed => \A f \in CanonicalFields : PresentPaths(input, f) = {} => Val(result)[f] = None
    /\ (mode = "normalize" /\ pc = "invalid") => PresentPaths(input, "options_ticker") = {}

\* C23 (as stated): every candidate has direction BULLISH exactly when its
\* contract_type is CALL and BEARISH exactly when it is PUT, so that a candidate
\* of any other contract type has neither direction.
C23_Original ==
    PipelineMode =>
        \A cand \in Emitted :
            /\ cand.direction = "BULLISH" <=> cand.contract_type = "CALL"
            /\ cand.direction = "BEARISH" <=> cand.contract_type = "PUT"

\* the worker has ended, by the return of main or by an exception
Terminated == mode = "main" /\ pc \in {"exit", "crashed"}

\* C24 (as stated): once the signal handler has set the stop flag, no scan cycle
\* is started any more, and when the worker has ended every cycle it started ran
\* over all tickers and returned and the client was closed exactly once; the
\* client is never closed twice.
C24_Original ==
    mode = "main" =>
        /\ output.closes <= 1
        /\ output.stopped => output.cycles = output.cycles_at_stop
        /\ (output.stopped /\ Terminated) =>
               /\ Len(result) = output.cycles
               /\ \A k \in 1..Len(result) : result[k] = input.tickers
               /\ output.closes = 1

\* the contract has an expiration, a contract type and a price (a last price, or
\* a bid and an ask)
HasExpiryTypePrice(c) ==
    /\ c.expiration_date # None
    /\ c.contract_type \notin {None, Some("")}
    /\ c.last_price # None \/ (c.bid # None /\ c.ask # None)

\* the contracts of the chain that cleared all predicates
Accepted == {i \in 1..Len(chain) : reasons_log[i] = << >>}

\* C25: when find_unusual_activity has returned, a candidate with flow_type DEBUG
\* or debug_alert = true is in the result only if debug_mode is set and no
\* contract of the chain was accepted; and in that case the result has at most 2
\* candidates, each built from a different contract that has expiration, type and
\* price, each with flow_type DEBUG, debug_alert = true and is_sweep = false, in
\* descending order of notional.
C25_DebugFallback ==
    (mode \in FindModes /\ pc = "done") =>
        /\ (\E cand \in Range(result) : cand.flow_type = "DEBUG" \/ cand.debug_alert) =>
               (settings.debug_mode /\ Accepted = {})
        /\ (settings.debug_mode /\ Accepted = {}) =>
               /\ Len(result) <= 2
               /\ \A k \in 1..Len(result) :
                   /\ result[k].flow_type = "DEBUG"
                   /\ result[k].debug_alert
                   /\ ~result[k].is_sweep
                   /\ HasExpiryTypePrice(Source(result[k]))
               /\ \A k, l \in 1..Len(result) :
                   k < l => /\ RGe(result[k].notional, result[l].notional)
                            /\ result[k].src # result[l].src

\* three rejected contracts with expiration, type and price, one of them flagged
\* as a sweep upstream, were in the chain in debug mode: the two of highest
\* notional were returned, against the order of the chain
C25_Witness ==
    /\ mode = "find_debug"
    /\ pc = "done"
    /\ settings.debug_mode
    /\ Len(chain) = 3
    /\ \A i \in 1..3 : HasExpiryTypePrice(chain[i]) /\ reasons_log[i] # << >>
    /\ Len(result) = 2
    /\ result[1].src = 3
    /\ result[2].src = 1
    /\ RGt(result[1].notional, result[2].notional)
    /\ Source(result[2]).sweep = Some(TRUE)
    /\ result[1].flow_type = "DEBUG"

\* C26: a candidate of find_unusual_activity whose contract has open interest
\* zero or absent and no upstream sweep flag of true never has is_sweep = true or
\* flow_type SWEEP, whatever its volume, notional and prices: its ratio is 0, which
\* is below the 3.0 of the fallback test of _detect_sweep.
C26_NoSweepAtZeroOpenInterest ==
    mode \in FindModes =>
        \A cand \in Emitted :
            (OrZero(Source(cand).open_interest) = 0 /\ Source(cand).sweep # Some(TRUE)) =>
                /\ cand.volume_oi_ratio = Some(F(0))
                /\ ~cand.is_sweep
                /\ cand.flow_type # "SWEEP"

\* a contract with volume 1000 and open interest 0 was accepted under the debug
\* thresholds with a notional of at least 2 x min_notional and its last price at
\* the mid: only the ratio kept it from the sweep class
C26_Witness ==
    /\ mode \in FindModes
    /\ pc = "done"
    /\ \E cand \in Range(result) :
        /\ <<"_detect_sweep", cand.src>> \in calls
        /\ Source(cand).open_interest = Some(0)
        /\ Source(cand).volume = Some(1000)
        /\ Source(cand).sweep = None
        /\ RGe(cand.notional, F(2 * InForce.min_notional))
        /\ Source(cand).last_price = Some(5)
        /\ _calculate_mid_price(Source(cand)) = Some(F(5))
        /\ cand.flow_type = "STANDARD"

\* the reasons recorded for contract i include r
Rejected(i, r) == r \in Range(reasons_log[i])

\* contract i went through the filters of find_unusual_activity
Filtered(i) ==
    /\ chain[i].expiration_date # None
    /\ chain[i].contract_type \notin {None, Some("")}

\* C27: for every contract that find_unusual_activity filtered, each of the
\* reasons trade_count, trade_size, rvol, iv_pctile and unusual_score is recorded
\* exactly when the field is present and below its floor in force, so never for
\* a null field; the reasons volume and open_interest are recorded exactly when
\* the field, read as 0 when null, is below its floor, so always for a null field
\* under a floor above 0.
C27_NullFields ==
    mode \in FindModes =>
        \A i \in 1..Len(chain) :
            Filtered(i) =>
                /\ Rejected(i, "trade_count") <=>
                       (chain[i].trade_count # None
                            /\ chain[i].trade_count[1] < InForce.min_trade_count)
                /\ Rejected(i, "trade_size") <=>
                       (chain[i].trade_size # None
                            /\ chain[i].trade_size[1] < InForce.min_trade_size)
                /\ Rejected(i, "rvol") <=>
                       (chain[i].rvol # None /\ chain[i].rvol[1] < InForce.min_rvol)
                /\ Rejected(i, "iv_pctile") <=>
                       (chain[i].iv_percentile # None
                            /\ chain[i].iv_percentile[1] < InForce.min_iv_pctile)
                /\ Rejected(i, "unusual_score") <=>
                       (chain[i].unusual_score # None
                            /\ chain[i].unusual_score[1] < InForce.min_unusual_score)
                /\ Rejected(i, "volume") <=>
                       (IF chain[i].volume = None THEN 0 ELSE chain[i].volume[1])
                           < InForce.min_volume
                /\ Rejected(i, "open_interest") <=>
                       (IF chain[i].open_interest = None THEN 0 ELSE chain[i].open_interest[1])
                           < InForce.min_open_interest

\* under floors above 0, a contract without volume, open interest, trade count,
\* trade size, relative volume and IV percentile was rejected for volume and open
\* interest and for none of the other four
C27_Witness ==
    /\ mode \in FindModes
    /\ pc = "done"
    /\ InForce.min_volume > 0 /\ InForce.min_open_interest > 0
    /\ InForce.min_trade_count > 0 /\ InForce.min_trade_size > 0
    /\ InForce.min_rvol > 0 /\ InForce.min_iv_pctile > 0
    /\ \E i \in 1..Len(chain) :
        /\ Filtered(i)
        /\ chain[i].volume = None /\ chain[i].open_interest = None
        /\ chain[i].trade_count = None /\ chain[i].trade_size = None
        /\ chain[i].rvol = None /\ chain[i].iv_percentile = None
        /\ Rejected(i, "volume") /\ Rejected(i, "open_interest")
        /\ ~Rejected(i, "trade_count") /\ ~Rejected(i, "trade_size")
        /\ ~Rejected(i, "rvol") /\ ~Rejected(i, "iv_pctile")

\* the attempt ended in a failure the claim lists: a network error, an HTTP
\* status >= 400, invalid JSON, or a payload that is no valid snapshot response
FailedAttempt(a) ==
    \/ a.error
    \/ a.status >= 400
    \/ a.body \in {<<"invalid_json">>, <<"null">>, <<"list", "any">>,
                   <<"dict", "bad_mappings">>, <<"dict", "scalars">>}

\* C28 (as stated): get_option_chain_snapshot makes at most 3 attempts, each
\* attempt but the last having ended in a network error, and when its last
\* attempt failed it does not raise and returns None.
C28_Original ==
    mode = "client" =>
        /\ Len(chain) <= 3
        /\ \A k \in 1..(Len(chain) - 1) : chain[k].error
        /\ (pc \in {"done", "raised"} /\ FailedAttempt(chain[Len(chain)])) =>
               (pc = "done" /\ result = None)

====
